---- MODULE Spec2Model ----
(***************************************************************************)
(* SimpleAMIClient (custom_components/asterisk/ami_client.py): the raw     *)
(* socket AMI client with its reader, keep-alive and reconnection threads, *)
(* the PBX as environment, and the event dispatch to registered listeners. *)
(*                                                                         *)
(* Text on the wire is a sequence of lines.  A line is a tuple of strings: *)
(* <<key, value>> for "key: value", <<s>> for a line without ": ", and <<>> *)
(* for the blank line that ends a frame ("\r\n\r\n").  The reader's        *)
(* framing and the parse of one frame are also modelled on characters      *)
(* (SpecFrames, SpecParse), where chunk boundaries and strip() are visible. *)
(***************************************************************************)
EXTENDS Integers, Sequences, FiniteSets, TLC

\* ------------------------------------------------------------ bounds
MaxThreads == 6
\* Spec: connect, loss, reconnect and disconnect()
LifeSocks == 2
LifeConnects == 1
LifeFaults == 1
LifeWakes == 1
\* SpecLoss: one connection lost, reconnection left to the client
LossSocks == 3
LossFaults == 1
LossWakes == 1
\* SpecSend: send_action beside the reader
SendSocks == 2
SendFaults == 1
SendEvents == 1
SendCalls == 1
SendWakes == 0
SendListeners == 1
\* SpecDispatch: registrations and the dispatch of one event at a time
DispListeners == 3
\* SpecShutdown: disconnect() beside the reconnection loop
ShutSocks == 2
ShutFaults == 1
\* SpecRaise: two events dispatched to listeners, one of which raises
RaiseSocks == 2
RaiseFaults == 1
RaiseEvents == 2
RaiseListeners == 2
\* SpecOrder: two events pushed around one lost connection
OrderSocks == 2
OrderFaults == 1
OrderEvents == 2
OrderWakes == 1
OrderListeners == 1

\* SpecHalfOpen: one connection that goes silent, is closed or is reset
HalfSocks == 2
HalfFaults == 1
HalfWakes == 2
\* SpecCallbacks: one connection lost, with lifecycle callbacks that raise
CbSocks == 2
CbFaults == 1
\* SpecPoll: one event that arrives in two parts, with read timeouts between
PollSocks == 2
PollFaults == 1
PollEvents == 1
PollListeners == 1
\* SpecStale: a loss found by the keep-alive thread while part of an event is
\* in the reader's buffer
StaleSocks == 2
StaleFaults == 1
StaleEvents == 1
StaleWakes == 1
\* SpecClose: disconnect() on a healthy connection
CloseSocks == 1
CloseWakes == 1
\* SpecSetup: the integration's setup and one loss
SetupSocks == 2
SetupFaults == 1
SetupCalls == 1
\* SpecReenter: callbacks that call add_event_listener and send_action
ReenterSocks == 1
ReenterFaults == 1
ReenterEvents == 1
ReenterCalls == 1
ReenterListeners == 2
\* SpecFrames: inbound streams of up to MaxTokens tokens, cut anywhere
MaxTokens == 6
\* SpecParse: frames of up to MaxLines lines of up to MaxLineLen characters
MaxLines == 2
MaxLineLen == 3

\* ------------------------------------------------------------ wire text
Terminator == <<>>

Banner == << <<"Asterisk Call Manager/5.0">> >>
LoginOk == << <<"Response", "Success">>, Terminator >>
LoginErr == << <<"Response", "Error">>, Terminator >>
PongFrame == << <<"Response", "Pong">>, Terminator >>
CmdReply == << <<"Response", "Follows">>, Terminator >>
EventFoo == << <<"Event", "Foo">>, <<"X", "1">>, Terminator >>
EventBar == << <<"Event", "Bar">>, <<"X", "2">>, Terminator >>

Range(s) == {s[i] : i \in 1..Len(s)}

HasTerm(text) == \E i \in 1..Len(text) : text[i] = Terminator

FirstTerm(text) ==
  CHOOSE i \in 1..Len(text) :
    text[i] = Terminator /\ \A j \in 1..(i - 1) : text[j] # Terminator

\* buffer.split("\r\n\r\n", 1)
SplitMsg(text) == SubSeq(text, 1, FirstTerm(text) - 1)
SplitRest(text) == SubSeq(text, FirstTerm(text) + 1, Len(text))

\* the complete frames the reader's inner while loop splits off, in order
RECURSIVE Frames(_)
Frames(buffer) ==
  IF HasTerm(buffer)
  THEN <<SplitMsg(buffer)>> \o Frames(SplitRest(buffer))
  ELSE <<>>

\* what the inner while loop leaves in the buffer
RECURSIVE Remainder(_)
Remainder(buffer) ==
  IF HasTerm(buffer) THEN Remainder(SplitRest(buffer)) ELSE buffer

\* "Success" in response: the literal is looked for in the raw text
ContainsSuccess(text) ==
  \E i \in 1..Len(text) : \E j \in 1..Len(text[i]) : text[i][j] = "Success"

\* ------------------------------------------------------------ records, events
WellFormed(line) == Len(line) = 2

Keys(msg) == {msg[i][1] : i \in {j \in 1..Len(msg) : WellFormed(msg[j])}}

LastIdx(msg, k) ==
  CHOOSE i \in 1..Len(msg) :
    /\ WellFormed(msg[i]) /\ msg[i][1] = k
    /\ \A j \in (i + 1)..Len(msg) : ~(WellFormed(msg[j]) /\ msg[j][1] = k)

\* data = {}; for line in lines: if ": " in line: data[key] = value
ParseData(msg) == [k \in Keys(msg) |-> msg[LastIdx(msg, k)][2]]

IsEventMsg(msg) == "Event" \in Keys(msg)

AMIEvent(msg) == [name |-> ParseData(msg)["Event"], data |-> ParseData(msg)]

\* AMIEvent.get(key, default="")
EventGet(event, key) ==
  IF key \in DOMAIN event.data THEN event.data[key] ELSE ""

\* ------------------------------------------------------------ dispatch matching
\* a registration is (callback, whitelist, filters)
Registration(cb, wl, flt) == [cb |-> cb, wl |-> wl, flt |-> flt]

\* not (whitelist and event.name not in whitelist)
WhitelistPass(reg, event) == reg.wl = <<>> \/ event.name \in Range(reg.wl)

\* a variant that lets a missing key pass any filter
FiltersPassMissingOk(reg, event) ==
  \A k \in DOMAIN reg.flt :
    k \notin DOMAIN event.data \/ event.data[k] = reg.flt[k]

\* for key, value in filters.items(): if event.get(key) != value: match = False
FiltersPass(reg, event) ==
  \A k \in DOMAIN reg.flt : EventGet(event, k) = reg.flt[k]

Matches(reg, event) == WhitelistPass(reg, event) /\ FiltersPass(reg, event)

\* a variant that records the newest invocation first
InvokeIfMatchFirst(calls, reg, event) ==
  IF Matches(reg, event) THEN <<reg.cb>> \o calls ELSE calls

\* one pass of the loop body: the callback is invoked when everything matched
InvokeIfMatch(calls, reg, event) ==
  IF Matches(reg, event) THEN Append(calls, reg.cb) ELSE calls

\* the callbacks the for loop has invoked once it is past position n
RECURSIVE DispatchUpTo(_, _, _)
DispatchUpTo(ls, event, n) ==
  IF n = 0
  THEN <<>>
  ELSE InvokeIfMatch(DispatchUpTo(ls, event, n - 1), ls[n], event)

\* self._event_listeners.append((callback, white_list or [], filters))
AppendListener(ls, reg) == Append(ls, reg)

\* ------------------------------------------------------------ text as characters
\* The reader and _process_message work on characters.  A text is a sequence
\* of characters; "CR" and "LF" are "\r" and "\n", a word such as "Event" stands
\* for a run of letters.  On the socket the non-ASCII character "U+E9" is the
\* two bytes "C3" "A9"; every other character is one byte.
CrLf == <<"CR", "LF">>
BlankLine == <<"CR", "LF", "CR", "LF">>
ColonSpace == <<":", " ">>

\* sub in text
Occurs(sub, text, i) ==
  /\ i >= 1
  /\ i + Len(sub) - 1 <= Len(text)
  /\ SubSeq(text, i, i + Len(sub) - 1) = sub

Contains(text, sub) == \E i \in 1..Len(text) : Occurs(sub, text, i)

\* text.split(sub, 1): the parts before and after the first occurrence
FirstAt(text, sub) ==
  CHOOSE i \in 1..Len(text) :
    Occurs(sub, text, i) /\ \A j \in 1..(i - 1) : ~Occurs(sub, text, j)

Before(text, sub) == SubSeq(text, 1, FirstAt(text, sub) - 1)
After(text, sub) == SubSeq(text, FirstAt(text, sub) + Len(sub), Len(text))

\* text.split(sub)
RECURSIVE SplitAll(_, _)
SplitAll(text, sub) ==
  IF Contains(text, sub)
  THEN <<Before(text, sub)>> \o SplitAll(After(text, sub), sub)
  ELSE <<text>>

\* str.strip(): white space removed at both ends
IsSpace(c) == c \in {" ", "CR", "LF"}

Strip(text) ==
  LET inked == {i \in 1..Len(text) : ~IsSpace(text[i])}
      lo == CHOOSE i \in inked : \A j \in inked : i <= j
      hi == CHOOSE i \in inked : \A j \in inked : j <= i
  IN IF inked = {} THEN <<>> ELSE SubSeq(text, lo, hi)

\* bytes.decode(): raises on a two-byte character that is not whole
Decodable(bytes) ==
  /\ \A i \in 1..Len(bytes) :
        bytes[i] = "C3" => (i < Len(bytes) /\ bytes[i + 1] = "A9")
  /\ \A i \in 1..Len(bytes) :
        bytes[i] = "A9" => (i > 1 /\ bytes[i - 1] = "C3")

RECURSIVE Decode(_)
Decode(bytes) ==
  IF bytes = <<>> THEN <<>>
  ELSE IF bytes[1] = "C3" THEN <<"U+E9">> \o Decode(SubSeq(bytes, 3, Len(bytes)))
  ELSE <<bytes[1]>> \o Decode(Tail(bytes))

\* while "\r\n\r\n" in buffer: msg, buffer = buffer.split("\r\n\r\n", 1)
RECURSIVE TextFrames(_)
TextFrames(buffer) ==
  IF Contains(buffer, BlankLine)
  THEN <<Before(buffer, BlankLine)>> \o TextFrames(After(buffer, BlankLine))
  ELSE <<>>

RECURSIVE TextRemainder(_)
TextRemainder(buffer) ==
  IF Contains(buffer, BlankLine)
  THEN TextRemainder(After(buffer, BlankLine))
  ELSE buffer

\* data[key] = value
Store(data, key, value) ==
  [k \in (DOMAIN data) \cup {key} |-> IF k = key THEN value ELSE data[k]]

\* for line in lines: if ": " in line: key, value = line.split(": ", 1)
RECURSIVE ParseLines(_, _)
ParseLines(lines, data) ==
  IF lines = <<>> THEN data
  ELSE IF Contains(lines[1], ColonSpace)
  THEN ParseLines(Tail(lines),
                  Store(data, Before(lines[1], ColonSpace),
                        After(lines[1], ColonSpace)))
  ELSE ParseLines(Tail(lines), data)

\* lines = msg.strip().split("\r\n"), then the loop over the lines
ParseText(msg) == ParseLines(SplitAll(Strip(msg), CrLf), <<>>)

\* ------------------------------------------------------------ state
VARIABLES
  sock,          \* self._sock: 0 is None, else the socket's number
  connected,     \* self._connected
  running,       \* self._running
  listeners,     \* self._event_listeners
  onDisconnect,  \* self._on_disconnect: "none" or the handler set
  onReconnect,   \* self._on_reconnect: "none" or the handler set
  sendLock,      \* self._send_lock: 0 is free, else the holding thread
  socks,         \* the sockets created so far and the PBX end of each; history:
                 \* pushed counts the events sent on it, subs the registrations
                 \* there were when it was lost
  th,            \* the threads: 1 is the caller, the others are spawned
  dEv,           \* _dispatch_event: the event being dispatched
  dIdx,          \* _dispatch_event: the for loop's position, 0 when no loop runs
  dCalls,        \* callbacks invoked for dEv, in order
  everAdded,     \* history: every registration passed to add_event_listener
  dcCalls,       \* history: invocations of the disconnect callback
  rcCalls,       \* history: invocations of the reconnect callback
  shutdown,      \* history: disconnect() called, no caller connect() since
  consumed,      \* history: <<reader of the bytes, line>> for reply and event lines
  nEvents,       \* events the PBX has pushed
  nFaults,       \* connections the PBX has closed or reset
  nSends,        \* send_action calls that reached the socket
  nPings,        \* times a keep-alive sleep has ended
  nConnects,     \* connect() calls made by the caller
  lim,           \* the bounds of the run: sockets, faults, events, sends, wakes, listeners
  rx,            \* _read_events on one byte stream: bytes to come, buffer, frames
  pm             \* _process_message on one frame: the text, the record, the event

vars ==
  <<sock, connected, running, listeners, onDisconnect, onReconnect, sendLock,
    socks, th, dEv, dIdx, dCalls, everAdded, dcCalls, rcCalls, shutdown,
    consumed, nEvents, nFaults, nSends, nPings, nConnects, lim, rx, pm>>

Threads == 1..MaxThreads
SockIds == 1..4
Caller == 1

NoEvent == [name |-> "", data |-> <<>>]

BlankSock ==
  [st |-> "unused", closed |-> FALSE, peer |-> "open", inq |-> <<>>,
   reqs |-> <<>>, est |-> FALSE, pushed |-> 0, subs |-> 0, half |-> <<>>]

BlankThread ==
  [kind |-> "none", pc |-> "none", op |-> "none", buf |-> <<>>, rs |-> 0,
   retB |-> FALSE, retS |-> <<>>, log |-> {}, cbi |-> 0, data |-> <<>>,
   src |-> {}]

\* SimpleAMIClient.__init__
Constructed ==
  /\ sock = 0
  /\ connected = FALSE
  /\ running = FALSE
  /\ listeners = <<>>
  /\ onDisconnect = "none"
  /\ onReconnect = "none"
  /\ sendLock = 0
  /\ socks = [s \in SockIds |-> BlankSock]
  /\ th = [t \in Threads |->
             IF t = Caller
             THEN [BlankThread EXCEPT !.kind = "main", !.pc = "idle"]
             ELSE BlankThread]
  /\ dEv = NoEvent
  /\ dIdx = 0
  /\ dCalls = <<>>
  /\ everAdded = <<>>
  /\ dcCalls = 0
  /\ rcCalls = 0
  /\ shutdown = FALSE
  /\ consumed = {}
  /\ nEvents = 0
  /\ nFaults = 0
  /\ nSends = 0
  /\ nPings = 0
  /\ nConnects = 0

\* no byte stream and no frame under study
NoRx == [all |-> <<>>, wire |-> <<>>, buf |-> <<>>, out |-> <<>>, ok |-> TRUE]
NoPm == [msg |-> <<>>, pc |-> "none", data |-> <<>>, name |-> <<>>]
TextIdle == rx = NoRx /\ pm = NoPm

Limits(so, co, fa, ev, se, wa, li) ==
  [socks |-> so, connects |-> co, faults |-> fa, events |-> ev, sends |-> se,
   wakes |-> wa, listeners |-> li]

\* ------------------------------------------------------------ sockets
NumSocks == Cardinality({s \in SockIds : socks[s].st # "unused"})

\* what socket.recv does on socket s now: "data", "eof", "timeout" or "err"
RecvOutcome(s) ==
  IF s = 0 THEN "err"
  ELSE IF socks[s].closed \/ socks[s].st # "conn" \/ socks[s].peer = "rst"
  THEN "err"
  ELSE IF socks[s].inq # <<>> THEN "data"
  ELSE IF socks[s].peer = "eof" THEN "eof"
  ELSE "timeout"

\* whether socket.send succeeds on socket s now
SendOk(s) ==
  /\ s # 0
  /\ ~socks[s].closed
  /\ socks[s].st = "conn"
  /\ socks[s].peer # "rst"

\* the socket table after recv took the first pending chunk of s
TakeChunk(s) == [socks EXCEPT ![s].inq = Tail(@)]

\* the socket table after send wrote request req to s
PutRequest(s, req) == [socks EXCEPT ![s].reqs = Append(@, req)]

\* reply and event lines of a chunk, tagged with who read them
Tagged(who, chunk) ==
  {<<who, chunk[i]>> : i \in {j \in 1..Len(chunk) : WellFormed(chunk[j])}}

\* ------------------------------------------------------------ threads
HasFree(thr, n) == Cardinality({t \in Threads : thr[t].kind = "none"}) >= n

FreeIdx(thr) ==
  CHOOSE t \in Threads :
    thr[t].kind = "none" /\ \A u \in 1..(t - 1) : thr[u].kind # "none"

\* threading.Thread(target=..., daemon=True).start()
Spawn(thr, kind, pc) ==
  [thr EXCEPT ![FreeIdx(thr)] = [BlankThread EXCEPT !.kind = kind, !.pc = pc]]

\* a thread whose target returned
Finish(thr, t) == [thr EXCEPT ![t] = BlankThread]

\* where connect() returns to: the caller is idle again, _reconnect_loop goes on
AfterConnect(t) == IF th[t].kind = "main" THEN "idle" ELSE "rc_after"

\* ------------------------------------------------------------ connect()
\* the caller calls connect()
CallConnect ==
  /\ th[Caller].pc = "idle"
  /\ NumSocks < lim.socks
  /\ nConnects < lim.connects
  /\ nConnects' = nConnects + 1
  /\ th' = [th EXCEPT ![Caller].pc = "k_open", ![Caller].op = "connect",
                      ![Caller].log = {}, ![Caller].buf = <<>>,
                      ![Caller].retB = FALSE]
  /\ shutdown' = FALSE
  /\ UNCHANGED <<sock, connected, running, listeners, onDisconnect,
                 onReconnect, sendLock, socks, dEv, dIdx, dCalls, everAdded,
                 dcCalls, rcCalls, consumed, nEvents, nFaults, nSends, nPings,
                 lim, rx, pm>>

\* a variant that hands a failed attempt to the reconnection loop
ConnectFailedRetry(thr, t) ==
  Spawn([thr EXCEPT ![t].retB = FALSE, ![t].pc = "k_ret"], "reconn", "rc_loop")

\* except Exception: return False; and the else branch of the login check
ConnectFailed(thr, t) == [thr EXCEPT ![t].retB = FALSE, ![t].pc = "k_ret"]

\* self._sock = socket.socket(...)
KOpen(t) ==
  /\ th[t].pc = "k_open"
  /\ NumSocks < lim.socks
  /\ sock' = NumSocks + 1
  /\ socks' = [socks EXCEPT ![NumSocks + 1].st = "new"]
  /\ th' = [th EXCEPT ![t].pc = "k_conn"]
  /\ UNCHANGED <<connected, running, listeners, onDisconnect, onReconnect,
                 sendLock, dEv, dIdx, dCalls, everAdded, dcCalls, rcCalls,
                 shutdown, consumed, nEvents, nFaults, nSends, nPings,
                 nConnects, lim, rx, pm>>

\* self._sock.connect((host, port)): the PBX accepts and sends its banner
KConnectOk(t) ==
  /\ th[t].pc = "k_conn"
  /\ socks[sock].st = "new" /\ ~socks[sock].closed
  /\ socks' = [socks EXCEPT ![sock].st = "conn", ![sock].inq = <<Banner>>]
  /\ th' = [th EXCEPT ![t].pc = "k_banner", ![t].log = @ \cup {"opened"}]
  /\ UNCHANGED <<sock, connected, running, listeners, onDisconnect,
                 onReconnect, sendLock, dEv, dIdx, dCalls, everAdded, dcCalls,
                 rcCalls, shutdown, consumed, nEvents, nFaults, nSends, nPings,
                 nConnects, lim, rx, pm>>

\* self._sock.connect raises: the PBX refuses or does not answer
KConnectRefused(t) ==
  /\ th[t].pc = "k_conn"
  /\ socks[sock].st = "new" /\ ~socks[sock].closed
  /\ nFaults < lim.faults
  /\ nFaults' = nFaults + 1
  /\ th' = ConnectFailed(th, t)
  /\ UNCHANGED <<sock, connected, running, listeners, onDisconnect,
                 onReconnect, sendLock, socks, dEv, dIdx, dCalls, everAdded,
                 dcCalls, rcCalls, shutdown, consumed, nEvents, nSends, nPings,
                 nConnects, lim, rx, pm>>

\* self._sock.connect raises: self._sock is closed or already connected
KConnectErr(t) ==
  /\ th[t].pc = "k_conn"
  /\ ~(socks[sock].st = "new" /\ ~socks[sock].closed)
  /\ th' = ConnectFailed(th, t)
  /\ UNCHANGED <<sock, connected, running, listeners, onDisconnect,
                 onReconnect, sendLock, socks, dEv, dIdx, dCalls, everAdded,
                 dcCalls, rcCalls, shutdown, consumed, nEvents, nFaults,
                 nSends, nPings, nConnects, lim, rx, pm>>

\* banner = self._sock.recv(1024).decode().strip()
KBanner(t) ==
  /\ th[t].pc = "k_banner"
  /\ LET out == RecvOutcome(sock) IN
     /\ th' = IF out \in {"data", "eof"}
              THEN [th EXCEPT ![t].pc = "k_login", ![t].log = @ \cup {"banner"}]
              ELSE ConnectFailed(th, t)
     /\ socks' = IF out = "data" THEN TakeChunk(sock) ELSE socks
     /\ consumed' = IF out = "data"
                    THEN consumed \cup Tagged("connect", Head(socks[sock].inq))
                    ELSE consumed
  /\ UNCHANGED <<sock, connected, running, listeners, onDisconnect,
                 onReconnect, sendLock, dEv, dIdx, dCalls, everAdded, dcCalls,
                 rcCalls, shutdown, nEvents, nFaults, nSends, nPings,
                 nConnects, lim, rx, pm>>

\* self._sock.send(login_cmd.encode())
KLogin(t) ==
  /\ th[t].pc = "k_login"
  /\ th' = IF SendOk(sock)
           THEN [th EXCEPT ![t].pc = "k_resp", ![t].buf = <<>>,
                           ![t].log = @ \cup {"sent"}]
           ELSE ConnectFailed(th, t)
  /\ socks' = IF SendOk(sock) THEN PutRequest(sock, "Login") ELSE socks
  /\ UNCHANGED <<sock, connected, running, listeners, onDisconnect,
                 onReconnect, sendLock, dEv, dIdx, dCalls, everAdded, dcCalls,
                 rcCalls, shutdown, consumed, nEvents, nFaults, nSends, nPings,
                 nConnects, lim, rx, pm>>

\* response = self._recv_response(): one recv of its loop
KResp(t) ==
  /\ th[t].pc = "k_resp"
  /\ LET out == RecvOutcome(sock)
         data == IF out = "data" THEN th[t].buf \o Head(socks[sock].inq)
                 ELSE th[t].buf
     IN
     /\ th' = IF out = "data"
              THEN [th EXCEPT ![t].buf = data,
                              ![t].pc = IF HasTerm(data) THEN "k_eval" ELSE "k_resp"]
              ELSE IF out = "eof"
              THEN [th EXCEPT ![t].pc = "k_eval"]
              ELSE ConnectFailed(th, t)
     /\ socks' = IF out = "data" THEN TakeChunk(sock) ELSE socks
     /\ consumed' = IF out = "data"
                    THEN consumed \cup Tagged("connect", Head(socks[sock].inq))
                    ELSE consumed
  /\ UNCHANGED <<sock, connected, running, listeners, onDisconnect,
                 onReconnect, sendLock, dEv, dIdx, dCalls, everAdded, dcCalls,
                 rcCalls, shutdown, nEvents, nFaults, nSends, nPings,
                 nConnects, lim, rx, pm>>

\* a variant that accepts any complete login response
LoginAcceptedAnyReply(response) == HasTerm(response)

\* if "Success" in response
LoginAccepted(response) == ContainsSuccess(response)

\* self._connected = True; self._running = True; _start_reader(); _start_ping()
KEvalOk(t) ==
  /\ th[t].pc = "k_eval"
  /\ LoginAccepted(th[t].buf)
  /\ HasFree(th, 2)
  /\ connected' = TRUE
  /\ running' = TRUE
  /\ socks' = [socks EXCEPT ![sock].est = TRUE]
  /\ th' = Spawn(Spawn([th EXCEPT ![t].retB = TRUE, ![t].pc = "k_ret",
                                  ![t].log = @ \cup {"success"}],
                       "reader", "r_init"),
                 "ping", "p_loop")
  /\ UNCHANGED <<sock, listeners, onDisconnect, onReconnect, sendLock, dEv,
                 dIdx, dCalls, everAdded, dcCalls, rcCalls, shutdown, consumed,
                 nEvents, nFaults, nSends, nPings, nConnects, lim, rx, pm>>

\* _LOGGER.error("AMI login failed"); return False
KEvalFail(t) ==
  /\ th[t].pc = "k_eval"
  /\ ~LoginAccepted(th[t].buf)
  /\ th' = ConnectFailed(th, t)
  /\ UNCHANGED <<sock, connected, running, listeners, onDisconnect,
                 onReconnect, sendLock, socks, dEv, dIdx, dCalls, everAdded,
                 dcCalls, rcCalls, shutdown, consumed, nEvents, nFaults,
                 nSends, nPings, nConnects, lim, rx, pm>>

\* return True / return False
KReturn(t) ==
  /\ th[t].pc = "k_ret"
  /\ th' = [th EXCEPT ![t].pc = AfterConnect(t), ![t].buf = <<>>, ![t].log = {},
                      ![t].op = "none"]
  /\ UNCHANGED <<sock, connected, running, listeners, onDisconnect,
                 onReconnect, sendLock, socks, dEv, dIdx, dCalls, everAdded,
                 dcCalls, rcCalls, shutdown, consumed, nEvents, nFaults,
                 nSends, nPings, nConnects, lim, rx, pm>>

\* ------------------------------------------------------------ _read_events
\* self._sock.settimeout(1), before the loop and outside its try
RInit(t) ==
  /\ th[t].pc = "r_init"
  /\ th' = IF socks[sock].closed THEN Finish(th, t)
           ELSE [th EXCEPT ![t].pc = "r_loop"]
  /\ UNCHANGED <<sock, connected, running, listeners, onDisconnect,
                 onReconnect, sendLock, socks, dEv, dIdx, dCalls, everAdded,
                 dcCalls, rcCalls, shutdown, consumed, nEvents, nFaults,
                 nSends, nPings, nConnects, lim, rx, pm>>

\* while self._running: ... self._sock.recv starts on the socket of that moment
RLoop(t) ==
  /\ th[t].pc = "r_loop"
  /\ th' = IF running THEN [th EXCEPT ![t].pc = "r_recv", ![t].rs = sock]
           ELSE Finish(th, t)
  /\ UNCHANGED <<sock, connected, running, listeners, onDisconnect,
                 onReconnect, sendLock, socks, dEv, dIdx, dCalls, everAdded,
                 dcCalls, rcCalls, shutdown, consumed, nEvents, nFaults,
                 nSends, nPings, nConnects, lim, rx, pm>>

\* a variant that takes every frame for an event, with the empty name when
\* the frame has no "Event" key
EventMsgsNamingReplies(buffer) ==
  [i \in 1..Len(Frames(buffer)) |->
     IF IsEventMsg(Frames(buffer)[i]) THEN Frames(buffer)[i]
     ELSE << <<"Event", "">> >> \o Frames(buffer)[i]]

\* the frames of a buffer that carry an "Event" key, in order
EventMsgs(buffer) == SelectSeq(Frames(buffer), IsEventMsg)

\* history: the sockets the bytes of a reader's buffer were received on, once
\* chunk, received on socket s, was added to buffer, which held bytes of from
BufferOrigin(from, buffer, chunk, s) ==
  IF Remainder(buffer \o chunk) = <<>> THEN {}
  ELSE IF HasTerm(buffer \o chunk) THEN {s}
  ELSE from \cup {s}

\* recv returned bytes: buffer += chunk, then every complete frame is processed
RRecvData(t) ==
  /\ th[t].pc = "r_recv"
  /\ RecvOutcome(th[t].rs) = "data"
  /\ LET chunk == Head(socks[th[t].rs].inq)
         buffer == th[t].buf \o chunk
         evs == EventMsgs(buffer)
         calls == IF evs # <<>>
                  THEN DispatchUpTo(listeners, AMIEvent(evs[Len(evs)]),
                                    Len(listeners))
                  ELSE <<>>
     IN
     /\ th' = IF calls # <<>>
              THEN [th EXCEPT ![t].buf = Remainder(buffer), ![t].pc = "r_cb",
                              ![t].op = AMIEvent(evs[Len(evs)]).name,
                              ![t].retS = calls,
                              ![t].src = BufferOrigin(@, th[t].buf, chunk,
                                                      th[t].rs)]
              ELSE [th EXCEPT ![t].buf = Remainder(buffer), ![t].pc = "r_loop",
                              ![t].src = BufferOrigin(@, th[t].buf, chunk,
                                                      th[t].rs)]
     /\ socks' = TakeChunk(th[t].rs)
     /\ consumed' = consumed \cup Tagged("reader", chunk)
     /\ IF evs # <<>>
        THEN /\ dEv' = AMIEvent(evs[Len(evs)])
             /\ dCalls' = calls
             /\ dIdx' = 0
        ELSE UNCHANGED <<dEv, dCalls, dIdx>>
  /\ UNCHANGED <<sock, connected, running, listeners, onDisconnect,
                 onReconnect, sendLock, everAdded, dcCalls, rcCalls, shutdown,
                 nEvents, nFaults, nSends, nPings, nConnects, lim, rx, pm>>

\* the callbacks that raise an exception when they are invoked
Raising == {"r"}

\* a variant without the try/except around the callback: the exception
\* reaches the except clause of _read_events
AfterCallbacksUncaught(calls) ==
  IF \E i \in 1..Len(calls) : calls[i] \in Raising THEN "hd_mark" ELSE "r_loop"

\* try: callback(event) except Exception: _LOGGER.error(...): whatever the
\* callbacks did, the reader goes on with its loop
AfterCallbacks(calls) == "r_loop"

\* the callbacks whose body calls add_event_listener, and those whose body
\* calls send_action; every other callback only returns or raises
Registering == {"g"}
Sending == {"s"}

\* the registration a callback of Registering adds
AddedByCallback == Registration("h", <<>>, <<>>)

\* a variant in which the dispatching thread holds self._lock while the
\* callbacks run
DispatchLockHeld(t) == t

\* for callback, whitelist, filters in self._event_listeners: the loop takes
\* no lock; 0 is none, else the thread that holds self._lock for its dispatch
DispatchLock(t) == 0

\* with self._lock: can be entered
ListenerLockFree ==
  \A u \in Threads :
    ~(th[u].pc \in {"r_cb", "s_send", "s_recv"} /\ th[u].kind = "reader"
        /\ DispatchLock(u) = u)

\* the position in retS of the next callback whose body calls back into the
\* client, 0 when there is none; cbi is the last position whose body is done
NextBody(t) ==
  LET todo == {i \in (th[t].cbi + 1)..Len(th[t].retS) :
                 th[t].retS[i] \in Registering \cup Sending}
  IN IF todo = {} THEN 0 ELSE CHOOSE i \in todo : \A j \in todo : i <= j

\* the callbacks invoked for the frame have returned or raised:
\* _dispatch_event and _process_message return
RCallbacksDone(t) ==
  /\ th[t].pc = "r_cb"
  /\ NextBody(t) = 0
  /\ th' = [th EXCEPT ![t].pc = AfterCallbacks(th[t].retS), ![t].op = "none",
                      ![t].retS = <<>>, ![t].cbi = 0, ![t].log = {}]
  /\ UNCHANGED <<sock, connected, running, listeners, onDisconnect,
                 onReconnect, sendLock, socks, dEv, dIdx, dCalls, everAdded,
                 dcCalls, rcCalls, shutdown, consumed, nEvents, nFaults,
                 nSends, nPings, nConnects, lim, rx, pm>>

\* a variant that starts a new buffer after a timeout
RRecvTimeoutDropsBuffer(t) ==
  /\ th[t].pc = "r_recv"
  /\ RecvOutcome(th[t].rs) = "timeout"
  /\ th' = [th EXCEPT ![t].pc = "r_loop", ![t].buf = <<>>]
  /\ UNCHANGED <<sock, connected, running, listeners, onDisconnect,
                 onReconnect, sendLock, socks, dEv, dIdx, dCalls, everAdded,
                 dcCalls, rcCalls, shutdown, consumed, nEvents, nFaults,
                 nSends, nPings, nConnects, lim, rx, pm>>

\* except socket.timeout: continue; history: log tells that the reader timed
\* out while its buffer held a partial frame
RRecvTimeout(t) ==
  /\ th[t].pc = "r_recv"
  /\ RecvOutcome(th[t].rs) = "timeout"
  /\ th' = [th EXCEPT ![t].pc = "r_loop",
                      ![t].log = IF th[t].buf # <<>> THEN @ \cup {"held"} ELSE @]
  /\ UNCHANGED <<sock, connected, running, listeners, onDisconnect,
                 onReconnect, sendLock, socks, dEv, dIdx, dCalls, everAdded,
                 dcCalls, rcCalls, shutdown, consumed, nEvents, nFaults,
                 nSends, nPings, nConnects, lim, rx, pm>>

\* if not chunk: self._handle_disconnect(); break
RRecvEof(t) ==
  /\ th[t].pc = "r_recv"
  /\ RecvOutcome(th[t].rs) = "eof"
  /\ th' = [th EXCEPT ![t].pc = "hd_mark"]
  /\ UNCHANGED <<sock, connected, running, listeners, onDisconnect,
                 onReconnect, sendLock, socks, dEv, dIdx, dCalls, everAdded,
                 dcCalls, rcCalls, shutdown, consumed, nEvents, nFaults,
                 nSends, nPings, nConnects, lim, rx, pm>>

\* except Exception: if self._running: self._handle_disconnect(); break
RRecvErr(t) ==
  /\ th[t].pc = "r_recv"
  /\ RecvOutcome(th[t].rs) = "err"
  /\ th' = IF running THEN [th EXCEPT ![t].pc = "hd_mark"] ELSE Finish(th, t)
  /\ UNCHANGED <<sock, connected, running, listeners, onDisconnect,
                 onReconnect, sendLock, socks, dEv, dIdx, dCalls, everAdded,
                 dcCalls, rcCalls, shutdown, consumed, nEvents, nFaults,
                 nSends, nPings, nConnects, lim, rx, pm>>

\* ------------------------------------------------------------ _read_events on bytes
\* chunk = self._sock.recv(4096).decode(); buffer += chunk; the inner while
\* loop hands every complete frame to _process_message.  recv returns the
\* next k bytes of the stream, for any k.
RxText(k) ==
  /\ rx.ok
  /\ k \in 1..Len(rx.wire)
  /\ Decodable(SubSeq(rx.wire, 1, k))
  /\ rx' = [rx EXCEPT
              !.wire = SubSeq(@, k + 1, Len(@)),
              !.out = @ \o TextFrames(rx.buf \o Decode(SubSeq(rx.wire, 1, k))),
              !.buf = TextRemainder(@ \o Decode(SubSeq(rx.wire, 1, k)))]
  /\ UNCHANGED <<sock, connected, running, listeners, onDisconnect,
                 onReconnect, sendLock, socks, th, dEv, dIdx, dCalls,
                 everAdded, dcCalls, rcCalls, shutdown, consumed, nEvents,
                 nFaults, nSends, nPings, nConnects, lim, pm>>

\* decode() raises: except Exception, _handle_disconnect() and break
RxUndecodable(k) ==
  /\ rx.ok
  /\ k \in 1..Len(rx.wire)
  /\ ~Decodable(SubSeq(rx.wire, 1, k))
  /\ rx' = [rx EXCEPT !.wire = SubSeq(@, k + 1, Len(@)), !.ok = FALSE]
  /\ UNCHANGED <<sock, connected, running, listeners, onDisconnect,
                 onReconnect, sendLock, socks, th, dEv, dIdx, dCalls,
                 everAdded, dcCalls, rcCalls, shutdown, consumed, nEvents,
                 nFaults, nSends, nPings, nConnects, lim, pm>>

\* ------------------------------------------------------------ _process_message on text
\* lines = msg.strip().split("\r\n") and the loop that fills data
PmParse ==
  /\ pm.pc = "in"
  /\ pm' = [pm EXCEPT !.data = ParseText(pm.msg), !.pc = "parsed"]
  /\ UNCHANGED <<sock, connected, running, listeners, onDisconnect,
                 onReconnect, sendLock, socks, th, dEv, dIdx, dCalls,
                 everAdded, dcCalls, rcCalls, shutdown, consumed, nEvents,
                 nFaults, nSends, nPings, nConnects, lim, rx>>

\* if "Event" in data: event = AMIEvent(data["Event"], data)
PmEvent ==
  /\ pm.pc = "parsed"
  /\ <<"Event">> \in DOMAIN pm.data
  /\ pm' = [pm EXCEPT !.name = pm.data[<<"Event">>], !.pc = "event"]
  /\ UNCHANGED <<sock, connected, running, listeners, onDisconnect,
                 onReconnect, sendLock, socks, th, dEv, dIdx, dCalls,
                 everAdded, dcCalls, rcCalls, shutdown, consumed, nEvents,
                 nFaults, nSends, nPings, nConnects, lim, rx>>

PmNoEvent ==
  /\ pm.pc = "parsed"
  /\ <<"Event">> \notin DOMAIN pm.data
  /\ pm' = [pm EXCEPT !.pc = "done"]
  /\ UNCHANGED <<sock, connected, running, listeners, onDisconnect,
                 onReconnect, sendLock, socks, th, dEv, dIdx, dCalls,
                 everAdded, dcCalls, rcCalls, shutdown, consumed, nEvents,
                 nFaults, nSends, nPings, nConnects, lim, rx>>

\* ------------------------------------------------------------ _process_message
\* the reader hands one complete frame to _process_message: an AMIEvent is
\* built and _dispatch_event's for loop starts when the frame has an Event key
ProcessMessage(msg) ==
  /\ dIdx = 0
  /\ IF IsEventMsg(msg)
     THEN /\ dEv' = AMIEvent(msg)
          /\ dIdx' = 1
          /\ dCalls' = <<>>
     ELSE UNCHANGED <<dEv, dIdx, dCalls>>
  /\ UNCHANGED <<sock, connected, running, listeners, onDisconnect,
                 onReconnect, sendLock, socks, th, everAdded, dcCalls, rcCalls,
                 shutdown, consumed, nEvents, nFaults, nSends, nPings,
                 nConnects, lim, rx, pm>>

\* one iteration of: for callback, whitelist, filters in self._event_listeners
DispatchStep ==
  /\ dIdx > 0
  /\ dIdx <= Len(listeners)
  /\ dCalls' = InvokeIfMatch(dCalls, listeners[dIdx], dEv)
  /\ dIdx' = dIdx + 1
  /\ UNCHANGED <<sock, connected, running, listeners, onDisconnect,
                 onReconnect, sendLock, socks, th, dEv, everAdded, dcCalls,
                 rcCalls, shutdown, consumed, nEvents, nFaults, nSends, nPings,
                 nConnects, lim, rx, pm>>

\* the for loop finds the list exhausted and _dispatch_event returns
DispatchEnd ==
  /\ dIdx > Len(listeners)
  /\ dIdx' = 0
  /\ UNCHANGED <<sock, connected, running, listeners, onDisconnect,
                 onReconnect, sendLock, socks, th, dEv, dCalls, everAdded,
                 dcCalls, rcCalls, shutdown, consumed, nEvents, nFaults,
                 nSends, nPings, nConnects, lim, rx, pm>>

\* ------------------------------------------------------------ _ping_loop, ping
\* while self._running and self._connected: time.sleep(self._ping_interval)
PLoop(t) ==
  /\ th[t].pc = "p_loop"
  /\ th' = IF running /\ connected THEN [th EXCEPT ![t].pc = "p_wake"]
           ELSE Finish(th, t)
  /\ UNCHANGED <<sock, connected, running, listeners, onDisconnect,
                 onReconnect, sendLock, socks, dEv, dIdx, dCalls, everAdded,
                 dcCalls, rcCalls, shutdown, consumed, nEvents, nFaults,
                 nSends, nPings, nConnects, lim, rx, pm>>

\* if not self._running or not self._connected: break
PWake(t) ==
  /\ th[t].pc = "p_wake"
  /\ nPings < lim.wakes
  /\ nPings' = nPings + 1
  /\ th' = IF running /\ connected THEN [th EXCEPT ![t].pc = "p_ping"]
           ELSE Finish(th, t)
  /\ UNCHANGED <<sock, connected, running, listeners, onDisconnect,
                 onReconnect, sendLock, socks, dEv, dIdx, dCalls, everAdded,
                 dcCalls, rcCalls, shutdown, consumed, nEvents, nFaults,
                 nSends, nConnects, lim, rx, pm>>

\* ping(): if not self._connected or not self._sock: return False
PPing(t) ==
  /\ th[t].pc = "p_ping"
  /\ th' = IF ~connected \/ sock = 0 THEN [th EXCEPT ![t].pc = "hd_mark"]
           ELSE [th EXCEPT ![t].pc = "p_send"]
  /\ UNCHANGED <<sock, connected, running, listeners, onDisconnect,
                 onReconnect, sendLock, socks, dEv, dIdx, dCalls, everAdded,
                 dcCalls, rcCalls, shutdown, consumed, nEvents, nFaults,
                 nSends, nPings, nConnects, lim, rx, pm>>

\* a variant of ping() that waits for the reply and reports a failure when
\* the peer does not answer
PSendOkAwaitsReply(t) ==
  /\ th[t].pc = "p_send"
  /\ sendLock = 0
  /\ SendOk(sock)
  /\ socks' = PutRequest(sock, "Ping")
  /\ th' = IF socks[sock].peer = "open" THEN [th EXCEPT ![t].pc = "p_loop"]
           ELSE [th EXCEPT ![t].pc = "hd_mark"]
  /\ UNCHANGED <<sock, connected, running, listeners, onDisconnect,
                 onReconnect, sendLock, dEv, dIdx, dCalls, everAdded, dcCalls,
                 rcCalls, shutdown, consumed, nEvents, nFaults, nSends, nPings,
                 nConnects, lim, rx, pm>>

\* with self._send_lock: self._sock.send(cmd.encode()); return True
PSendOk(t) ==
  /\ th[t].pc = "p_send"
  /\ sendLock = 0
  /\ SendOk(sock)
  /\ socks' = PutRequest(sock, "Ping")
  /\ th' = [th EXCEPT ![t].pc = "p_loop"]
  /\ UNCHANGED <<sock, connected, running, listeners, onDisconnect,
                 onReconnect, sendLock, dEv, dIdx, dCalls, everAdded, dcCalls,
                 rcCalls, shutdown, consumed, nEvents, nFaults, nSends, nPings,
                 nConnects, lim, rx, pm>>

\* the send raises: ping() returns False and _ping_loop handles the disconnect
PSendFail(t) ==
  /\ th[t].pc = "p_send"
  /\ sendLock = 0
  /\ ~SendOk(sock)
  /\ th' = [th EXCEPT ![t].pc = "hd_mark"]
  /\ UNCHANGED <<sock, connected, running, listeners, onDisconnect,
                 onReconnect, sendLock, socks, dEv, dIdx, dCalls, everAdded,
                 dcCalls, rcCalls, shutdown, consumed, nEvents, nFaults,
                 nSends, nPings, nConnects, lim, rx, pm>>

\* ------------------------------------------------------------ _handle_disconnect
\* a variant of the handler that never invokes the callback
DisconnectCallbackSkipped(n) == n

\* invocations of the disconnect callback after one more call of the handler
DisconnectCallback(n) == IF onDisconnect # "none" THEN n + 1 ELSE n

\* a variant without the try/except around the disconnect callback: the
\* exception ends the thread before the reconnect thread is started
AfterDisconnectCallbackUncaught(h) == IF h = "raises" THEN "dead" ELSE "hd_spawn"

\* try: self._on_disconnect(self, None) except: pass
AfterDisconnectCallback(h) == "hd_spawn"

\* self._connected = False; if self._on_disconnect: self._on_disconnect(self, None)
HdMark(t) ==
  /\ th[t].pc = "hd_mark"
  /\ connected' = FALSE
  /\ dcCalls' = DisconnectCallback(dcCalls)
  /\ th' = [th EXCEPT ![t].pc = AfterDisconnectCallback(onDisconnect)]
  /\ UNCHANGED <<sock, running, listeners, onDisconnect, onReconnect, sendLock,
                 socks, dEv, dIdx, dCalls, everAdded, rcCalls, shutdown,
                 consumed, nEvents, nFaults, nSends, nPings, nConnects, lim,
                 rx, pm>>

\* if self._running: threading.Thread(target=self._reconnect_loop).start()
\* and the calling loop breaks, which ends its thread
HdSpawn(t) ==
  /\ th[t].pc = "hd_spawn"
  /\ th' = IF running THEN Spawn(Finish(th, t), "reconn", "rc_loop")
           ELSE Finish(th, t)
  /\ UNCHANGED <<sock, connected, running, listeners, onDisconnect,
                 onReconnect, sendLock, socks, dEv, dIdx, dCalls, everAdded,
                 dcCalls, rcCalls, shutdown, consumed, nEvents, nFaults,
                 nSends, nPings, nConnects, lim, rx, pm>>

\* ------------------------------------------------------------ _reconnect_loop
\* while self._running and not self._connected: time.sleep(...); self.connect()
RcLoop(t) ==
  /\ th[t].pc = "rc_loop"
  /\ th' = IF running /\ ~connected
           THEN [th EXCEPT ![t].pc = "k_open", ![t].op = "connect",
                           ![t].log = {}, ![t].buf = <<>>, ![t].retB = FALSE]
           ELSE Finish(th, t)
  /\ UNCHANGED <<sock, connected, running, listeners, onDisconnect,
                 onReconnect, sendLock, socks, dEv, dIdx, dCalls, everAdded,
                 dcCalls, rcCalls, shutdown, consumed, nEvents, nFaults,
                 nSends, nPings, nConnects, lim, rx, pm>>

\* invocations of the reconnect callback after one more successful reconnect
ReconnectCallback(n) == IF onReconnect # "none" THEN n + 1 ELSE n

\* if self.connect(): if self._on_reconnect: ...; break
RcAfter(t) ==
  /\ th[t].pc = "rc_after"
  /\ th' = IF th[t].retB
           THEN (IF onReconnect = "refresh"
                 THEN [th EXCEPT ![t].pc = "rc_refresh"]
                 ELSE Finish(th, t))
           ELSE [th EXCEPT ![t].pc = "rc_loop"]
  /\ rcCalls' = IF th[t].retB THEN ReconnectCallback(rcCalls) ELSE rcCalls
  /\ UNCHANGED <<sock, connected, running, listeners, onDisconnect,
                 onReconnect, sendLock, socks, dEv, dIdx, dCalls, everAdded,
                 dcCalls, shutdown, consumed, nEvents, nFaults, nSends, nPings,
                 nConnects, lim, rx, pm>>

\* ------------------------------------------------------------ send_action
\* where send_action returns to: the caller is idle again, a callback goes on
\* in the reader's dispatch
AfterSend(t) ==
  IF th[t].kind = "main" THEN "idle"
  ELSE IF th[t].kind = "reconn" THEN "rc_cbs"
  ELSE "r_cb"

\* except Exception: _LOGGER.error(...); return ""
SendActionFailed(thr, t) ==
  [thr EXCEPT ![t].retS = IF thr[t].kind = "main" THEN <<>> ELSE @,
              ![t].pc = AfterSend(t), ![t].log = @ \cup {"ioerr"}]

\* a variant without the connected check
NotConnectedGuardOff(t) == FALSE

\* if not self._connected: return ""
NotConnectedGuard(t) == ~connected

\* the caller calls send_action: the connected check is its first statement
CallSendAction ==
  /\ th[Caller].pc = "idle"
  /\ nSends < lim.sends
  /\ th' = IF NotConnectedGuard(Caller)
           THEN [th EXCEPT ![Caller].op = "send_action", ![Caller].log = {"down"},
                           ![Caller].retS = <<>>, ![Caller].data = <<>>]
           ELSE [th EXCEPT ![Caller].op = "send_action", ![Caller].log = {},
                           ![Caller].retS = <<>>, ![Caller].data = <<>>,
                           ![Caller].pc = "s_send"]
  /\ nSends' = nSends + 1
  /\ UNCHANGED <<sock, connected, running, listeners, onDisconnect,
                 onReconnect, sendLock, socks, dEv, dIdx, dCalls, everAdded,
                 dcCalls, rcCalls, shutdown, consumed, nEvents, nFaults,
                 nPings, nConnects, lim, rx, pm>>

\* with self._send_lock: self._sock.send(cmd.encode())
SSendOk(t) ==
  /\ th[t].pc = "s_send"
  /\ sendLock = 0
  /\ SendOk(sock)
  /\ sendLock' = t
  /\ socks' = PutRequest(sock, "Action")
  /\ th' = [th EXCEPT ![t].pc = "s_recv", ![t].data = <<>>,
                      ![t].log = @ \cup {"write"}]
  /\ UNCHANGED <<sock, connected, running, listeners, onDisconnect,
                 onReconnect, dEv, dIdx, dCalls, everAdded, dcCalls, rcCalls,
                 shutdown, consumed, nEvents, nFaults, nSends, nPings,
                 nConnects, lim, rx, pm>>

\* the send raises inside the with block: the lock is released on the way out
SSendFail(t) ==
  /\ th[t].pc = "s_send"
  /\ sendLock = 0
  /\ ~SendOk(sock)
  /\ th' = SendActionFailed(th, t)
  /\ UNCHANGED <<sock, connected, running, listeners, onDisconnect,
                 onReconnect, sendLock, socks, dEv, dIdx, dCalls, everAdded,
                 dcCalls, rcCalls, shutdown, consumed, nEvents, nFaults,
                 nSends, nPings, nConnects, lim, rx, pm>>

\* a variant in which an exception leaves the lock with the thread
LockAfterErrorHeld(t) == t

\* the send lock after send_action's with block was left by an exception
LockAfterError(t) == 0

\* return self._recv_response(): one recv of its loop, still under the lock
SRecvData(t) ==
  /\ th[t].pc = "s_recv"
  /\ RecvOutcome(sock) = "data"
  /\ LET data == th[t].data \o Head(socks[sock].inq) IN
     /\ th' = IF HasTerm(data)
              THEN [th EXCEPT ![t].retS = IF th[t].kind = "main" THEN data ELSE @,
                              ![t].data = <<>>,
                              ![t].pc = AfterSend(t),
                              ![t].log = @ \cup {"read"}]
              ELSE [th EXCEPT ![t].data = data, ![t].log = @ \cup {"read"}]
     /\ sendLock' = IF HasTerm(data) THEN 0 ELSE sendLock
     /\ consumed' = consumed \cup Tagged("send", Head(socks[sock].inq))
  /\ socks' = TakeChunk(sock)
  /\ UNCHANGED <<sock, connected, running, listeners, onDisconnect,
                 onReconnect, dEv, dIdx, dCalls, everAdded, dcCalls, rcCalls,
                 shutdown, nEvents, nFaults, nSends, nPings, nConnects, lim,
                 rx, pm>>

\* if not chunk: break; return data
SRecvEof(t) ==
  /\ th[t].pc = "s_recv"
  /\ RecvOutcome(sock) = "eof"
  /\ th' = [th EXCEPT ![t].retS = IF th[t].kind = "main" THEN th[t].data ELSE @,
                      ![t].data = <<>>, ![t].pc = AfterSend(t),
                      ![t].log = @ \cup {"read"}]
  /\ sendLock' = 0
  /\ UNCHANGED <<sock, connected, running, listeners, onDisconnect,
                 onReconnect, socks, dEv, dIdx, dCalls, everAdded, dcCalls,
                 rcCalls, shutdown, consumed, nEvents, nFaults, nSends, nPings,
                 nConnects, lim, rx, pm>>

\* recv raises (timeout, reset, closed socket): caught, "" is returned
SRecvErr(t) ==
  /\ th[t].pc = "s_recv"
  /\ RecvOutcome(sock) \in {"err", "timeout"}
  /\ th' = SendActionFailed([th EXCEPT ![t].data = <<>>,
                                       ![t].log = @ \cup {"read"}], t)
  /\ sendLock' = LockAfterError(t)
  /\ UNCHANGED <<sock, connected, running, listeners, onDisconnect,
                 onReconnect, socks, dEv, dIdx, dCalls, everAdded, dcCalls,
                 rcCalls, shutdown, consumed, nEvents, nFaults, nSends, nPings,
                 nConnects, lim, rx, pm>>

\* ------------------------------------------------------------ the other calls
\* disconnect(): _running = False; _connected = False; self._sock.close()
CallDisconnect ==
  /\ th[Caller].pc = "idle"
  /\ running' = FALSE
  /\ connected' = FALSE
  /\ socks' = IF sock # 0 THEN [socks EXCEPT ![sock].closed = TRUE] ELSE socks
  /\ shutdown' = TRUE
  /\ th' = [th EXCEPT ![Caller].op = "disconnect"]
  /\ UNCHANGED <<sock, listeners, onDisconnect, onReconnect, sendLock, dEv,
                 dIdx, dCalls, everAdded, dcCalls, rcCalls, consumed, nEvents,
                 nFaults, nSends, nPings, nConnects, lim, rx, pm>>

\* disconnect() statement by statement, for the runs in which other threads
\* act between its statements: the caller enters disconnect()
DEnter ==
  /\ th[Caller].pc = "idle"
  /\ th' = [th EXCEPT ![Caller].pc = "d_run", ![Caller].op = "disconnect"]
  /\ UNCHANGED <<sock, connected, running, listeners, onDisconnect,
                 onReconnect, sendLock, socks, dEv, dIdx, dCalls, everAdded,
                 dcCalls, rcCalls, shutdown, consumed, nEvents, nFaults,
                 nSends, nPings, nConnects, lim, rx, pm>>

\* self._running = False
DRunning ==
  /\ th[Caller].pc = "d_run"
  /\ running' = FALSE
  /\ shutdown' = TRUE
  /\ th' = [th EXCEPT ![Caller].pc = "d_conn"]
  /\ UNCHANGED <<sock, connected, listeners, onDisconnect, onReconnect,
                 sendLock, socks, dEv, dIdx, dCalls, everAdded, dcCalls,
                 rcCalls, consumed, nEvents, nFaults, nSends, nPings,
                 nConnects, lim, rx, pm>>

\* self._connected = False
DConnected ==
  /\ th[Caller].pc = "d_conn"
  /\ connected' = FALSE
  /\ th' = [th EXCEPT ![Caller].pc = "d_close"]
  /\ UNCHANGED <<sock, running, listeners, onDisconnect, onReconnect, sendLock,
                 socks, dEv, dIdx, dCalls, everAdded, dcCalls, rcCalls,
                 shutdown, consumed, nEvents, nFaults, nSends, nPings,
                 nConnects, lim, rx, pm>>

\* if self._sock: try: self._sock.close() except: pass
DClose ==
  /\ th[Caller].pc = "d_close"
  /\ socks' = IF sock # 0 THEN [socks EXCEPT ![sock].closed = TRUE] ELSE socks
  /\ th' = [th EXCEPT ![Caller].pc = "d_ret"]
  /\ UNCHANGED <<sock, connected, running, listeners, onDisconnect,
                 onReconnect, sendLock, dEv, dIdx, dCalls, everAdded, dcCalls,
                 rcCalls, shutdown, consumed, nEvents, nFaults, nSends, nPings,
                 nConnects, lim, rx, pm>>

\* disconnect() returns
DReturn ==
  /\ th[Caller].pc = "d_ret"
  /\ th' = [th EXCEPT ![Caller].pc = "idle"]
  /\ UNCHANGED <<sock, connected, running, listeners, onDisconnect,
                 onReconnect, sendLock, socks, dEv, dIdx, dCalls, everAdded,
                 dcCalls, rcCalls, shutdown, consumed, nEvents, nFaults,
                 nSends, nPings, nConnects, lim, rx, pm>>

\* add_event_listener(callback, white_list, **filters)
CallAddListener(reg) ==
  /\ th[Caller].pc = "idle"
  /\ ListenerLockFree
  /\ Len(listeners) < lim.listeners
  /\ listeners' = AppendListener(listeners, reg)
  /\ everAdded' = Append(everAdded, reg)
  /\ UNCHANGED <<sock, connected, running, onDisconnect, onReconnect, sendLock,
                 socks, th, dEv, dIdx, dCalls, dcCalls, rcCalls, shutdown,
                 consumed, nEvents, nFaults, nSends, nPings, nConnects, lim,
                 rx, pm>>

\* set_on_disconnect(callback)
SetOnDisconnect ==
  /\ th[Caller].pc = "idle"
  /\ onDisconnect = "none"
  /\ onDisconnect' = "cb"
  /\ UNCHANGED <<sock, connected, running, listeners, onReconnect, sendLock,
                 socks, th, dEv, dIdx, dCalls, everAdded, dcCalls, rcCalls,
                 shutdown, consumed, nEvents, nFaults, nSends, nPings,
                 nConnects, lim, rx, pm>>

\* set_on_disconnect(callback) with a callback that raises when invoked
SetOnDisconnectRaising ==
  /\ th[Caller].pc = "idle"
  /\ onDisconnect = "none"
  /\ onDisconnect' = "raises"
  /\ UNCHANGED <<sock, connected, running, listeners, onReconnect, sendLock,
                 socks, th, dEv, dIdx, dCalls, everAdded, dcCalls, rcCalls,
                 shutdown, consumed, nEvents, nFaults, nSends, nPings,
                 nConnects, lim, rx, pm>>

\* set_on_reconnect(callback) with a callback that raises when invoked
SetOnReconnectRaising ==
  /\ th[Caller].pc = "idle"
  /\ onReconnect = "none"
  /\ onReconnect' = "raises"
  /\ UNCHANGED <<sock, connected, running, listeners, onDisconnect, sendLock,
                 socks, th, dEv, dIdx, dCalls, everAdded, dcCalls, rcCalls,
                 shutdown, consumed, nEvents, nFaults, nSends, nPings,
                 nConnects, lim, rx, pm>>

\* set_on_reconnect(callback)
SetOnReconnect ==
  /\ th[Caller].pc = "idle"
  /\ onReconnect = "none"
  /\ onReconnect' = "cb"
  /\ UNCHANGED <<sock, connected, running, listeners, onDisconnect, sendLock,
                 socks, th, dEv, dIdx, dCalls, everAdded, dcCalls, rcCalls,
                 shutdown, consumed, nEvents, nFaults, nSends, nPings,
                 nConnects, lim, rx, pm>>

\* ------------------------------------------------------------ callbacks that call into the client
\* a callback calls add_event_listener: the registration is appended under
\* self._lock, and the for loop, which iterates the same list, visits it too
RCbAdd(t) ==
  /\ th[t].pc = "r_cb"
  /\ NextBody(t) # 0 /\ th[t].retS[NextBody(t)] \in Registering
  /\ ListenerLockFree
  /\ listeners' = AppendListener(listeners, AddedByCallback)
  /\ everAdded' = Append(everAdded, AddedByCallback)
  /\ th' = [th EXCEPT ![t].cbi = NextBody(t),
                      ![t].retS = InvokeIfMatch(@, AddedByCallback, dEv)]
  /\ dCalls' = InvokeIfMatch(dCalls, AddedByCallback, dEv)
  /\ UNCHANGED <<sock, connected, running, onDisconnect, onReconnect, sendLock,
                 socks, dEv, dIdx, dcCalls, rcCalls, shutdown, consumed,
                 nEvents, nFaults, nSends, nPings, nConnects, lim, rx, pm>>

\* a callback calls send_action: the connected check is its first statement
RCbSend(t) ==
  /\ th[t].pc = "r_cb"
  /\ NextBody(t) # 0 /\ th[t].retS[NextBody(t)] \in Sending
  /\ th' = IF NotConnectedGuard(t)
           THEN [th EXCEPT ![t].cbi = NextBody(t), ![t].log = {"down"}]
           ELSE [th EXCEPT ![t].cbi = NextBody(t), ![t].log = {},
                           ![t].pc = "s_send"]
  /\ UNCHANGED <<sock, connected, running, listeners, onDisconnect,
                 onReconnect, sendLock, socks, dEv, dIdx, dCalls, everAdded,
                 dcCalls, rcCalls, shutdown, consumed, nEvents, nFaults,
                 nSends, nPings, nConnects, lim, rx, pm>>

\* ------------------------------------------------------------ the integration
\* async_setup_entry, after connect() returned True: the handler that
\* refreshes the device states and the handler that logs a loss are set
SetupHandlers ==
  /\ th[Caller].pc = "idle" /\ th[Caller].retB
  /\ onReconnect = "none" /\ onDisconnect = "none"
  /\ onReconnect' = "refresh"
  /\ onDisconnect' = "log"
  /\ UNCHANGED <<sock, connected, running, listeners, sendLock, socks, th, dEv,
                 dIdx, dCalls, everAdded, dcCalls, rcCalls, shutdown, consumed,
                 nEvents, nFaults, nSends, nPings, nConnects, lim, rx, pm>>

\* the platforms are set up: AMIConnected.__init__ sets its own handlers and
\* calls send_action("CoreSettings")
SetupPlatforms ==
  /\ th[Caller].pc = "idle"
  /\ onDisconnect = "log"
  /\ nSends < lim.sends
  /\ onDisconnect' = "state"
  /\ onReconnect' = "state"
  /\ th' = IF NotConnectedGuard(Caller)
           THEN [th EXCEPT ![Caller].op = "send_action", ![Caller].log = {"down"},
                           ![Caller].retS = <<>>, ![Caller].data = <<>>]
           ELSE [th EXCEPT ![Caller].op = "send_action", ![Caller].log = {},
                           ![Caller].retS = <<>>, ![Caller].data = <<>>,
                           ![Caller].pc = "s_send"]
  /\ nSends' = nSends + 1
  /\ UNCHANGED <<sock, connected, running, listeners, sendLock, socks, dEv,
                 dIdx, dCalls, everAdded, dcCalls, rcCalls, shutdown, consumed,
                 nEvents, nFaults, nPings, nConnects, lim, rx, pm>>

\* on_reconnect of async_setup_entry: ami_client.send_action("DeviceStateList"),
\* whose first statement is the connected check
RcRefresh(t) ==
  /\ th[t].pc = "rc_refresh"
  /\ th' = IF NotConnectedGuard(t)
           THEN [th EXCEPT ![t].pc = "rc_cbs", ![t].log = {"down"}]
           ELSE [th EXCEPT ![t].pc = "s_send", ![t].log = {}]
  /\ UNCHANGED <<sock, connected, running, listeners, onDisconnect,
                 onReconnect, sendLock, socks, dEv, dIdx, dCalls, everAdded,
                 dcCalls, rcCalls, shutdown, consumed, nEvents, nFaults,
                 nSends, nPings, nConnects, lim, rx, pm>>

\* for callback in callbacks: try: callback() ...; the handler returns and
\* _reconnect_loop breaks
RcCallbacks(t) ==
  /\ th[t].pc = "rc_cbs"
  /\ th' = Finish(th, t)
  /\ UNCHANGED <<sock, connected, running, listeners, onDisconnect,
                 onReconnect, sendLock, socks, dEv, dIdx, dCalls, everAdded,
                 dcCalls, rcCalls, shutdown, consumed, nEvents, nFaults,
                 nSends, nPings, nConnects, lim, rx, pm>>

\* ------------------------------------------------------------ the PBX
\* what the PBX answers to a request
ReplyTo(req, ok) ==
  IF req = "Login" THEN (IF ok THEN LoginOk ELSE LoginErr)
  ELSE IF req = "Ping" THEN PongFrame
  ELSE CmdReply

\* a socket the client may still read: the current one, or one a reader is
\* blocked on; what the PBX does to any other socket is never observed
InUse(s) == s = sock \/ \E t \in Threads : th[t].pc = "r_recv" /\ th[t].rs = s

ServerReply(s) ==
  /\ InUse(s)
  /\ socks[s].st = "conn" /\ socks[s].peer = "open"
  /\ socks[s].reqs # <<>>
  /\ socks' = [socks EXCEPT ![s].reqs = Tail(@),
                            ![s].inq = Append(@, ReplyTo(Head(socks[s].reqs), TRUE))]
  /\ UNCHANGED <<sock, connected, running, listeners, onDisconnect,
                 onReconnect, sendLock, th, dEv, dIdx, dCalls, everAdded,
                 dcCalls, rcCalls, shutdown, consumed, nEvents, nFaults,
                 nSends, nPings, nConnects, lim, rx, pm>>

\* the PBX rejects the login
ServerRejectLogin(s) ==
  /\ InUse(s)
  /\ socks[s].st = "conn" /\ socks[s].peer = "open"
  /\ socks[s].reqs # <<>> /\ Head(socks[s].reqs) = "Login"
  /\ nFaults < lim.faults
  /\ nFaults' = nFaults + 1
  /\ socks' = [socks EXCEPT ![s].reqs = Tail(@),
                            ![s].inq = Append(@, ReplyTo("Login", FALSE))]
  /\ UNCHANGED <<sock, connected, running, listeners, onDisconnect,
                 onReconnect, sendLock, th, dEv, dIdx, dCalls, everAdded,
                 dcCalls, rcCalls, shutdown, consumed, nEvents, nSends, nPings,
                 nConnects, lim, rx, pm>>

\* the n-th event the PBX pushes
EventNo(n) == IF n = 1 THEN EventFoo ELSE EventBar

\* the PBX pushes an event
ServerEvent(s) ==
  /\ InUse(s)
  /\ socks[s].est /\ socks[s].peer = "open"
  /\ nEvents < lim.events
  /\ nEvents' = nEvents + 1
  /\ socks' = [socks EXCEPT ![s].inq = Append(@, EventNo(nEvents + 1)),
                            ![s].pushed = @ + 1]
  /\ UNCHANGED <<sock, connected, running, listeners, onDisconnect,
                 onReconnect, sendLock, th, dEv, dIdx, dCalls, everAdded,
                 dcCalls, rcCalls, shutdown, consumed, nFaults, nSends, nPings,
                 nConnects, lim, rx, pm>>

\* the PBX pushes the first line of an event; the rest of it follows later
ServerEventHead(s) ==
  /\ InUse(s)
  /\ socks[s].est /\ socks[s].peer = "open" /\ socks[s].half = <<>>
  /\ nEvents < lim.events
  /\ nEvents' = nEvents + 1
  /\ socks' = [socks EXCEPT ![s].inq = Append(@, <<Head(EventNo(nEvents + 1))>>),
                            ![s].half = Tail(EventNo(nEvents + 1))]
  /\ UNCHANGED <<sock, connected, running, listeners, onDisconnect,
                 onReconnect, sendLock, th, dEv, dIdx, dCalls, everAdded,
                 dcCalls, rcCalls, shutdown, consumed, nFaults, nSends, nPings,
                 nConnects, lim, rx, pm>>

\* the PBX pushes the rest of the event
ServerEventTail(s) ==
  /\ InUse(s)
  /\ socks[s].peer = "open" /\ socks[s].half # <<>>
  /\ socks' = [socks EXCEPT ![s].inq = Append(@, socks[s].half),
                            ![s].half = <<>>, ![s].pushed = @ + 1]
  /\ UNCHANGED <<sock, connected, running, listeners, onDisconnect,
                 onReconnect, sendLock, th, dEv, dIdx, dCalls, everAdded,
                 dcCalls, rcCalls, shutdown, consumed, nEvents, nFaults,
                 nSends, nPings, nConnects, lim, rx, pm>>

\* the PBX closes the connection (restart): the client reads 0 bytes
ServerClose(s) ==
  /\ InUse(s)
  /\ socks[s].st = "conn" /\ socks[s].peer = "open"
  /\ nFaults < lim.faults
  /\ nFaults' = nFaults + 1
  /\ socks' = [socks EXCEPT ![s].peer = "eof", ![s].subs = Len(listeners)]
  /\ UNCHANGED <<sock, connected, running, listeners, onDisconnect,
                 onReconnect, sendLock, th, dEv, dIdx, dCalls, everAdded,
                 dcCalls, rcCalls, shutdown, consumed, nEvents, nSends, nPings,
                 nConnects, lim, rx, pm>>

\* the connection is reset (network loss): reads and writes raise
ServerReset(s) ==
  /\ InUse(s)
  /\ socks[s].st = "conn" /\ socks[s].peer = "open"
  /\ nFaults < lim.faults
  /\ nFaults' = nFaults + 1
  /\ socks' = [socks EXCEPT ![s].peer = "rst", ![s].inq = <<>>,
                            ![s].subs = Len(listeners)]
  /\ UNCHANGED <<sock, connected, running, listeners, onDisconnect,
                 onReconnect, sendLock, th, dEv, dIdx, dCalls, everAdded,
                 dcCalls, rcCalls, shutdown, consumed, nEvents, nSends, nPings,
                 nConnects, lim, rx, pm>>

\* the peer vanishes without a close (half-open connection): writes still
\* succeed and reads only time out
ServerSilent(s) ==
  /\ s = sock
  /\ socks[s].st = "conn" /\ socks[s].peer = "open" /\ socks[s].est
  /\ nFaults < lim.faults
  /\ nFaults' = nFaults + 1
  /\ socks' = [socks EXCEPT ![s].peer = "mute"]
  /\ UNCHANGED <<sock, connected, running, listeners, onDisconnect,
                 onReconnect, sendLock, th, dEv, dIdx, dCalls, everAdded,
                 dcCalls, rcCalls, shutdown, consumed, nEvents, nSends, nPings,
                 nConnects, lim, rx, pm>>

\* ------------------------------------------------------------ specification
\* the program's threads, whatever the caller and the PBX do
ConnectSteps(t) ==
  \/ KOpen(t) \/ KConnectOk(t) \/ KConnectRefused(t) \/ KConnectErr(t)
  \/ KBanner(t) \/ KLogin(t)
  \/ KResp(t) \/ KEvalOk(t) \/ KEvalFail(t) \/ KReturn(t)

ReaderSteps(t) ==
  \/ RInit(t) \/ RLoop(t) \/ RRecvTimeout(t) \/ RRecvEof(t) \/ RRecvErr(t)

\* the reader's steps that only happen when the PBX pushes events
EventSteps(t) == RRecvData(t) \/ RCallbacksDone(t)

PingSteps(t) ==
  \/ PLoop(t) \/ PWake(t) \/ PPing(t) \/ PSendOk(t) \/ PSendFail(t)

RecoverySteps(t) ==
  \/ HdMark(t) \/ HdSpawn(t) \/ RcLoop(t) \/ RcAfter(t)

\* the registrations the caller chooses from in SpecSend
RegsSend ==
  { Registration("a", <<>>, <<>>),
    Registration("b", <<"Foo">>, [k \in {"X"} |-> "1"]),
    Registration("c", <<"Bar">>, <<>>) }

SendSteps(t) ==
  \/ SSendOk(t) \/ SSendFail(t) \/ SRecvData(t) \/ SRecvEof(t) \/ SRecvErr(t)

PbxSteps(s) ==
  \/ ServerReply(s) \/ ServerRejectLogin(s) \/ ServerClose(s) \/ ServerReset(s)

\* Spec: the connection lifecycle with an explicit shutdown.  The caller
\* connects once, may set the callbacks and may call disconnect() at any
\* time; the PBX answers logins and pings and may fail once.  No event is
\* pushed and no action is sent.
Init ==
  Constructed /\ TextIdle /\ lim = Limits(LifeSocks, LifeConnects, LifeFaults, 0, 0, LifeWakes, 0)

Next ==
  \/ CallConnect
  \/ CallDisconnect
  \/ SetOnDisconnect
  \/ SetOnReconnect
  \/ \E t \in Threads :
       ConnectSteps(t) \/ ReaderSteps(t) \/ PingSteps(t) \/ RecoverySteps(t)
  \/ \E t \in Threads : RRecvData(t)
  \/ \E s \in SockIds : PbxSteps(s)

Spec == Init /\ [][Next]_vars

\* SpecLoss: the caller connects once and never shuts down; the PBX may fail
\* once, and the client recovers by itself with up to LossSocks sockets.
InitLoss ==
  Constructed /\ TextIdle /\ lim = Limits(LossSocks, 1, LossFaults, 0, 0, LossWakes, 0)

NextLoss ==
  \/ CallConnect
  \/ SetOnDisconnect
  \/ SetOnReconnect
  \/ \E t \in Threads :
       ConnectSteps(t) \/ ReaderSteps(t) \/ PingSteps(t) \/ RecoverySteps(t)
  \/ \E t \in Threads : RRecvData(t)
  \/ \E s \in SockIds : PbxSteps(s)

SpecLoss == InitLoss /\ [][NextLoss]_vars

\* SpecSend: the caller connects and sends actions while the reader runs;
\* the PBX answers, pushes events and may fail once.
InitSend ==
  Constructed /\ TextIdle /\ lim = Limits(SendSocks, 1, SendFaults, SendEvents, SendCalls,
                              SendWakes, SendListeners)

NextSend ==
  \/ CallConnect
  \/ CallSendAction
  \/ CallDisconnect
  \/ \E reg \in RegsSend : CallAddListener(reg)
  \/ \E t \in Threads :
       ConnectSteps(t) \/ ReaderSteps(t) \/ RecoverySteps(t) \/ SendSteps(t)
  \/ \E t \in Threads : EventSteps(t) \/ PLoop(t)
  \/ \E s \in SockIds : PbxSteps(s) \/ ServerEvent(s)

SpecSend == InitSend /\ [][NextSend]_vars

\* SpecOrder: the caller registers a listener for everything and connects;
\* the PBX pushes events and may fail once, and the client recovers by itself.
RegsOrder == { Registration("a", <<>>, <<>>) }

InitOrder ==
  Constructed /\ TextIdle /\ lim = Limits(OrderSocks, 1, OrderFaults, OrderEvents, 0,
                              OrderWakes, OrderListeners)

NextOrder ==
  \/ CallConnect
  \/ \E reg \in RegsOrder : CallAddListener(reg)
  \/ \E t \in Threads :
       \/ KOpen(t) \/ KConnectOk(t) \/ KConnectRefused(t) \/ KBanner(t)
       \/ KLogin(t) \/ KResp(t) \/ KEvalOk(t) \/ KEvalFail(t) \/ KReturn(t)
  \/ \E t \in Threads : ReaderSteps(t) \/ PingSteps(t) \/ RecoverySteps(t)
  \/ \E t \in Threads : EventSteps(t)
  \/ \E s \in SockIds : PbxSteps(s) \/ ServerEvent(s)

SpecOrder == InitOrder /\ [][NextOrder]_vars

\* SpecShutdown: the caller connects once and calls disconnect() any number
\* of times, in any state; the PBX may fail once.  disconnect() runs
\* statement by statement.  The keep-alive thread never wakes.
DisconnectSteps == DEnter \/ DRunning \/ DConnected \/ DClose \/ DReturn

InitShutdown ==
  Constructed /\ TextIdle /\ lim = Limits(ShutSocks, 1, ShutFaults, 0, 0, 0, 0)

NextShutdown ==
  \/ CallConnect
  \/ DisconnectSteps
  \/ \E t \in Threads :
       ConnectSteps(t) \/ ReaderSteps(t) \/ RecoverySteps(t) \/ PLoop(t)
  \/ \E s \in SockIds : PbxSteps(s)

SpecShutdown == InitShutdown /\ [][NextShutdown]_vars

\* SpecRaise: the caller registers up to RaiseListeners listeners for every
\* event, among them one whose callback raises, and connects; the PBX pushes
\* events and may fail once.  The keep-alive thread never wakes.
RegsRaise == { Registration("r", <<>>, <<>>), Registration("a", <<>>, <<>>) }

InitRaise ==
  Constructed /\ TextIdle /\ lim = Limits(RaiseSocks, 1, RaiseFaults, RaiseEvents, 0, 0,
                              RaiseListeners)

NextRaise ==
  \/ CallConnect
  \/ \E reg \in RegsRaise : CallAddListener(reg)
  \/ \E t \in Threads :
       \/ KOpen(t) \/ KConnectOk(t) \/ KConnectRefused(t) \/ KBanner(t)
       \/ KLogin(t) \/ KResp(t) \/ KEvalOk(t) \/ KEvalFail(t) \/ KReturn(t)
  \/ \E t \in Threads : ReaderSteps(t) \/ RecoverySteps(t) \/ PLoop(t)
  \/ \E t \in Threads : EventSteps(t)
  \/ \E s \in SockIds : PbxSteps(s) \/ ServerEvent(s)

SpecRaise == InitRaise /\ [][NextRaise]_vars

\* SpecDispatch: registrations and frames drawn from small sets; the caller
\* adds listeners at any time, also while a dispatch is under way.
RegsDispatch ==
  { Registration("a", <<>>, <<>>),
    Registration("b", <<"Foo">>, <<>>),
    Registration("c", <<>>, [k \in {"X"} |-> "1"]),
    Registration("d", <<"Foo", "Bar">>, [k \in {"X"} |-> ""]),
    Registration("e", <<"Bar">>, [k \in {"X", "Y"} |-> IF k = "X" THEN "1" ELSE "2"]) }

MsgsDispatch ==
  { << <<"Event", "Foo">> >>,
    << <<"Event", "Foo">>, <<"X", "1">> >>,
    << <<"Event", "Foo">>, <<"X", "2">> >>,
    << <<"Event", "Bar">> >>,
    << <<"Event", "Bar">>, <<"X", "2">>, <<"Y", "2">>, <<"X", "1">> >>,
    << <<"Event", "Bar">>, <<"X=1">> >>,
    << <<"Response", "Follows">>, <<"X", "1">> >> }

InitDispatch ==
  Constructed /\ TextIdle /\ lim = Limits(0, 0, 0, 0, 0, 0, DispListeners)

NextDispatch ==
  \/ \E reg \in RegsDispatch : CallAddListener(reg)
  \/ \E msg \in MsgsDispatch : ProcessMessage(msg)
  \/ DispatchStep
  \/ DispatchEnd

SpecDispatch == InitDispatch /\ [][NextDispatch]_vars

\* SpecFrames: one byte stream, received in chunks cut at any byte
Tokens == { <<"a">>, <<"LF">>, CrLf, <<"C3", "A9">> }

RECURSIVE Flatten(_)
Flatten(ss) == IF ss = <<>> THEN <<>> ELSE ss[1] \o Flatten(Tail(ss))

Streams == {Flatten(ts) : ts \in UNION {[1..n -> Tokens] : n \in 0..MaxTokens}}

InitFrames ==
  /\ Constructed /\ lim = Limits(0, 0, 0, 0, 0, 0, 0)
  /\ pm = NoPm
  /\ \E bytes \in Streams : rx = [NoRx EXCEPT !.all = bytes, !.wire = bytes]

NextFrames ==
  \/ \E k \in 1..(2 * MaxTokens) : RxText(k)
  \/ \E k \in 1..(2 * MaxTokens) : RxUndecodable(k)

SpecFrames == InitFrames /\ [][NextFrames]_vars

\* SpecParse: one frame handed to _process_message
Words == {"Event", "a", "b"}
Alphabet == Words \cup {":", " "}

Lines ==
  UNION {[1..n -> Alphabet] : n \in 0..MaxLineLen}
    \cup {<<k, ":", " ", v>> : k \in Words, v \in Words}

RECURSIVE Join(_)
Join(ls) ==
  IF Len(ls) = 1 THEN ls[1] ELSE ls[1] \o CrLf \o Join(Tail(ls))

\* the reader splits at the first blank line: a frame holds none, and its last
\* line is not empty
MsgsParse ==
  {Join(ls) : ls \in {x \in UNION {[1..n -> Lines] : n \in 1..MaxLines} :
                         Len(x) = 1 \/ x[Len(x)] # <<>>}}

InitParse ==
  /\ Constructed /\ lim = Limits(0, 0, 0, 0, 0, 0, 0)
  /\ rx = NoRx
  /\ \E msg \in MsgsParse : pm = [NoPm EXCEPT !.msg = msg, !.pc = "in"]

NextParse == PmParse \/ PmEvent \/ PmNoEvent

SpecParse == InitParse /\ [][NextParse]_vars

\* SpecHalfOpen: after the login the connection goes silent, or is closed or
\* reset; the keep-alive thread wakes up to HalfWakes times
InitHalfOpen ==
  Constructed /\ TextIdle /\ lim = Limits(HalfSocks, 1, HalfFaults, 0, 0, HalfWakes, 0)

NextHalfOpen ==
  \/ CallConnect
  \/ SetOnDisconnect
  \/ \E t \in Threads :
       \/ KOpen(t) \/ KConnectOk(t) \/ KConnectRefused(t) \/ KBanner(t)
       \/ KLogin(t) \/ KResp(t) \/ KEvalOk(t) \/ KEvalFail(t) \/ KReturn(t)
  \/ \E t \in Threads : ReaderSteps(t) \/ PingSteps(t) \/ RecoverySteps(t)
  \/ \E t \in Threads : RRecvData(t)
  \/ \E s \in SockIds : PbxSteps(s) \/ ServerSilent(s)

SpecHalfOpen == InitHalfOpen /\ [][NextHalfOpen]_vars

\* SpecReenter: one event is dispatched to callbacks that call
\* add_event_listener and send_action, while the caller sends an action too
RegsReenter == { Registration("g", <<>>, <<>>), Registration("s", <<>>, <<>>) }

CallbackSteps(t) == RCbAdd(t) \/ RCbSend(t)

\* every step thread t can take in SpecReenter
StepsReenter(t) ==
  \/ KOpen(t) \/ KConnectOk(t) \/ KConnectRefused(t) \/ KBanner(t)
  \/ KLogin(t) \/ KResp(t) \/ KEvalOk(t) \/ KEvalFail(t) \/ KReturn(t)
  \/ ReaderSteps(t) \/ EventSteps(t) \/ CallbackSteps(t) \/ SendSteps(t)
  \/ PLoop(t) \/ HdMark(t) \/ HdSpawn(t) \/ RcLoop(t)

InitReenter ==
  Constructed /\ TextIdle
    /\ lim = Limits(ReenterSocks, 1, ReenterFaults, ReenterEvents, ReenterCalls,
                    0, ReenterListeners)

NextReenter ==
  \/ CallConnect
  \/ CallSendAction
  \/ \E reg \in RegsReenter : CallAddListener(reg)
  \/ \E t \in Threads : StepsReenter(t)
  \/ \E s \in SockIds : PbxSteps(s) \/ ServerEvent(s)

SpecReenter == InitReenter /\ [][NextReenter]_vars

\* every thread that can take a step is scheduled in the end
FairReenter ==
  SpecReenter /\ \A t \in Threads : WF_vars(StepsReenter(t))

\* SpecCallbacks: one connection is lost and re-established; the caller may
\* set lifecycle callbacks that raise
InitCallbacks ==
  Constructed /\ TextIdle /\ lim = Limits(CbSocks, 1, CbFaults, 0, 0, 0, 0)

NextCallbacks ==
  \/ CallConnect
  \/ SetOnDisconnectRaising
  \/ SetOnReconnectRaising
  \/ \E t \in Threads :
       \/ KOpen(t) \/ KConnectOk(t) \/ KConnectRefused(t) \/ KBanner(t)
       \/ KLogin(t) \/ KResp(t) \/ KEvalOk(t) \/ KEvalFail(t) \/ KReturn(t)
  \/ \E t \in Threads : ReaderSteps(t) \/ RecoverySteps(t) \/ PLoop(t)
  \/ \E s \in SockIds : PbxSteps(s)

SpecCallbacks == InitCallbacks /\ [][NextCallbacks]_vars

\* SpecPoll: the PBX sends one event in two parts; the reader may time out
\* before, between and after them
RegsPoll == { Registration("a", <<>>, <<>>) }

InitPoll ==
  Constructed /\ TextIdle
    /\ lim = Limits(PollSocks, 1, PollFaults, PollEvents, 0, 0, PollListeners)

NextPoll ==
  \/ CallConnect
  \/ \E reg \in RegsPoll : CallAddListener(reg)
  \/ \E t \in Threads :
       \/ KOpen(t) \/ KConnectOk(t) \/ KConnectRefused(t) \/ KBanner(t)
       \/ KLogin(t) \/ KResp(t) \/ KEvalOk(t) \/ KEvalFail(t) \/ KReturn(t)
  \/ \E t \in Threads : ReaderSteps(t) \/ RecoverySteps(t) \/ PLoop(t)
  \/ \E t \in Threads : EventSteps(t)
  \/ \E s \in SockIds : PbxSteps(s) \/ ServerEventHead(s) \/ ServerEventTail(s)

SpecPoll == InitPoll /\ [][NextPoll]_vars

\* SpecStale: as SpecPoll, without listeners and with the keep-alive thread,
\* which may be the one that finds the connection lost
InitStale ==
  Constructed /\ TextIdle
    /\ lim = Limits(StaleSocks, 1, StaleFaults, StaleEvents, 0, StaleWakes, 0)

NextStale ==
  \/ CallConnect
  \/ \E t \in Threads :
       \/ KOpen(t) \/ KConnectOk(t) \/ KConnectRefused(t) \/ KBanner(t)
       \/ KLogin(t) \/ KResp(t) \/ KEvalOk(t) \/ KEvalFail(t) \/ KReturn(t)
  \/ \E t \in Threads : ReaderSteps(t) \/ PingSteps(t) \/ RecoverySteps(t)
  \/ \E t \in Threads : RRecvData(t)
  \/ \E s \in SockIds : PbxSteps(s) \/ ServerEventHead(s) \/ ServerEventTail(s)

SpecStale == InitStale /\ [][NextStale]_vars

\* SpecClose: the caller sets the disconnect callback, connects and calls
\* disconnect(), statement by statement, while the reader and the keep-alive
\* thread run; the PBX never fails, so nothing but the shutdown ends the
\* connection
InitClose ==
  Constructed /\ TextIdle /\ lim = Limits(CloseSocks, 1, 0, 0, 0, CloseWakes, 0)

NextClose ==
  \/ CallConnect
  \/ SetOnDisconnect
  \/ DisconnectSteps
  \/ \E t \in Threads :
       \/ KOpen(t) \/ KConnectOk(t) \/ KBanner(t) \/ KLogin(t) \/ KResp(t)
       \/ KEvalOk(t) \/ KReturn(t)
  \/ \E t \in Threads :
       \/ RInit(t) \/ RLoop(t) \/ RRecvTimeout(t) \/ RRecvErr(t) \/ RRecvData(t)
  \/ \E t \in Threads : PingSteps(t) \/ HdMark(t) \/ HdSpawn(t)
  \/ \E s \in SockIds : ServerReply(s)

SpecClose == InitClose /\ [][NextClose]_vars

\* SpecSetup: the integration connects, sets its handlers and sets up its
\* platforms; the PBX may fail once, at any moment of it or after it
InitSetup ==
  Constructed /\ TextIdle
    /\ lim = Limits(SetupSocks, 1, SetupFaults, 0, SetupCalls, 0, 0)

NextSetup ==
  \/ CallConnect
  \/ SetupHandlers
  \/ SetupPlatforms
  \/ \E t \in Threads :
       \/ KOpen(t) \/ KConnectOk(t) \/ KConnectRefused(t) \/ KBanner(t)
       \/ KLogin(t) \/ KResp(t) \/ KEvalOk(t) \/ KEvalFail(t) \/ KReturn(t)
  \/ \E t \in Threads : ReaderSteps(t) \/ RecoverySteps(t) \/ PLoop(t)
  \/ \E t \in Threads : RRecvData(t) \/ SendSteps(t)
  \/ \E t \in Threads : RcRefresh(t) \/ RcCallbacks(t)
  \/ \E s \in SockIds : PbxSteps(s)

SpecSetup == InitSetup /\ [][NextSetup]_vars

\* ------------------------------------------------------------ properties
NumKind(thr, kind) == Cardinality({t \in Threads : thr[t].kind = kind})

\* established connections the PBX has closed or reset
LostSocks == {s \in SockIds : socks[s].est /\ socks[s].peer # "open"}

\* the step in which thread t's connect() reaches its return statement
ReachesReturn(t) == th[t].pc # "k_ret" /\ th'[t].pc = "k_ret"

\* C2 (as amended): connect() returns true exactly when the socket opened,
\* the banner was read, the login was written and the raw login response
\* contains "Success"; the step that decides true sets connected and running
\* and starts one reader and one keep-alive thread, and a call that returns
\* false starts neither.
C2_ConnectDecision ==
  [][\A t \in Threads :
       ReachesReturn(t) =>
         /\ th'[t].retB <=>
              /\ th[t].pc = "k_eval"
              /\ {"opened", "banner", "sent"} \subseteq th[t].log
              /\ ContainsSuccess(th[t].buf)
         /\ th'[t].retB =>
              /\ connected' /\ running'
              /\ NumKind(th', "reader") = NumKind(th, "reader") + 1
              /\ NumKind(th', "ping") = NumKind(th, "ping") + 1
         /\ ~th'[t].retB =>
              /\ NumKind(th', "reader") = NumKind(th, "reader")
              /\ NumKind(th', "ping") = NumKind(th, "ping")
              /\ connected' = connected /\ running' = running]_vars

\* C2 witness: a connect() about to return true with the client connected
\* and exactly one reader and one keep-alive thread started
C2_Witness ==
  \E t \in Threads :
    /\ th[t].pc = "k_ret" /\ th[t].retB /\ connected
    /\ NumKind(th, "reader") = 1 /\ NumKind(th, "ping") = 1

\* C2 (as claimed): whenever connect() returns true the client is Connected
C2_ReturnsTrueConnected ==
  \A t \in Threads : (th[t].pc = "k_ret" /\ th[t].retB) => connected

\* C3 (as claimed): the disconnect callback is invoked once per lost
\* connection, so never more often than connections were lost
C3_DisconnectOncePerLoss == dcCalls <= Cardinality(LostSocks)

\* C4 (as claimed): the reconnect callback is invoked once per lost
\* connection, so never more often than connections were lost
C4_ReconnectOncePerLoss == rcCalls <= Cardinality(LostSocks)

\* C5 (as claimed): after disconnect(), and until the caller calls connect()
\* again, the client is neither connected nor running
C5_ShutdownWins == shutdown => (~connected /\ ~running)

\* the event the PBX pushes in SpecSend, as the reader would build it
PushedEvent == AMIEvent(SplitMsg(EventFoo))

\* socket s carries a connection established after an earlier one was lost
Reestablished(s) ==
  socks[s].est /\ \E r \in 1..(s - 1) : socks[r].est /\ socks[r].peer # "open"

\* the registrations there were before every loss that precedes socket s
KnownBefore(s) ==
  {i \in 1..Len(listeners) :
     \A r \in 1..(s - 1) :
       (socks[r].est /\ socks[r].peer # "open") => i <= socks[r].subs}

\* the client has read the event from the socket
EventArrived ==
  \E who \in {"connect", "reader", "send"} : <<who, EventFoo[1]>> \in consumed

\* C1 (as claimed): every registration ever added is still registered, in
\* the order of the additions, and an event that arrived on a re-established
\* connection was dispatched to each matching listener registered before the
\* connection was lost
C1_ListenersSurviveReconnect ==
  /\ listeners = everAdded
  /\ \A s \in SockIds :
       (Reestablished(s) /\ socks[s].pushed = nEvents /\ nEvents > 0
          /\ EventArrived)
       => \A i \in KnownBefore(s) :
            Matches(listeners[i], PushedEvent) => listeners[i].cb \in Range(dCalls)

\* C6: a send_action call made while the client is not connected returns the
\* empty string at once, and neither writes to nor reads from any socket
C6_SendWhileDown ==
  [][(nSends' = nSends + 1 /\ ~connected) =>
       /\ th'[Caller].pc = "idle"
       /\ th'[Caller].retS = <<>>
       /\ socks' = socks
       /\ consumed' = consumed
       /\ sendLock' = sendLock]_vars

\* C6 witness: send_action has returned from a call made while the client
\* had a socket but was waiting to reconnect
C6_Witness ==
  /\ th[Caller].op = "send_action" /\ th[Caller].pc = "idle"
  /\ "down" \in th[Caller].log
  /\ th[Caller].retS = <<>>
  /\ running /\ ~connected /\ sock # 0

\* C7: when the write or the response read of send_action fails (send error,
\* read error, read timeout, socket closed or replaced), the call returns
\* the empty string instead of raising and does not keep the send lock
C7_SendNeverRaises ==
  [][\A t \in Threads :
       (/\ th'[t] # th[t]
        /\ \/ th[t].pc = "s_send" /\ ~SendOk(sock)
           \/ th[t].pc = "s_recv" /\ RecvOutcome(sock) \in {"err", "timeout"})
       => (th'[t].pc = "idle" /\ th'[t].retS = <<>> /\ sendLock' # t)]_vars

\* C7 witness: send_action wrote its action, the read of the response
\* failed, and the call has returned the empty string with the lock free
C7_Witness ==
  /\ th[Caller].op = "send_action" /\ th[Caller].pc = "idle"
  /\ {"write", "read", "ioerr"} \subseteq th[Caller].log
  /\ th[Caller].retS = <<>>
  /\ sendLock = 0

\* C8 (as claimed): the reader loop never consumes the response to an
\* action, and send_action never consumes the lines of an event
C8_ReplyReachesSender ==
  /\ <<"reader", CmdReply[1]>> \notin consumed
  /\ <<"send", EventFoo[1]>> \notin consumed

\* the positions the running for loop has passed
Visited == 1..(dIdx - 1)

\* C9: while an event is dispatched, the callback of each registration the
\* loop has passed was invoked if and only if the whitelist is empty or has
\* the event's name, and every filter key has the required value in the
\* event, a missing key counting as the empty string
C9_DispatchMatch ==
  dIdx > 0 =>
    \A i \in Visited :
      listeners[i].cb \in Range(dCalls) <=>
        /\ listeners[i].wl = <<>> \/ dEv.name \in Range(listeners[i].wl)
        /\ \A k \in DOMAIN listeners[i].flt :
             (IF k \in DOMAIN dEv.data THEN dEv.data[k] ELSE "")
               = listeners[i].flt[k]

\* C9 witness: an event named Bar without X has been offered to a listener
\* for everything, one with whitelist Foo and one with filter X = 1, and
\* only the first was invoked
C9_Witness ==
  /\ dIdx > Len(listeners)
  /\ dEv.name = "Bar" /\ "X" \notin DOMAIN dEv.data
  /\ {listeners[i].cb : i \in 1..Len(listeners)} = {"a", "b", "c"}
  /\ dCalls = <<"a">>

\* the passed positions whose registration matches the event
MatchingVisited == {i \in Visited : Matches(listeners[i], dEv)}

\* the k-th of them in registration order
KthMatching(k) ==
  CHOOSE i \in MatchingVisited :
    Cardinality({j \in MatchingVisited : j < i}) = k - 1

\* C10: while an event is dispatched, the invocations made so far are those
\* of the matching registrations passed, one each, in registration order
C10_RegistrationOrder ==
  dIdx > 0 =>
    /\ Len(dCalls) = Cardinality(MatchingVisited)
    /\ \A k \in 1..Len(dCalls) : dCalls[k] = listeners[KthMatching(k)].cb

\* C10 witness: three listeners were offered an event, the first and the
\* third matched, and they were invoked in that order
C10_Witness ==
  /\ dIdx > Len(listeners)
  /\ Len(listeners) = 3
  /\ Matches(listeners[1], dEv) /\ ~Matches(listeners[2], dEv)
  /\ Matches(listeners[3], dEv)
  /\ listeners[1].cb # listeners[3].cb
  /\ dCalls = <<listeners[1].cb, listeners[3].cb>>

\* the threads whose listener callbacks are running now
InCallbacks == {t \in Threads : th[t].pc = "r_cb"}

\* C11 (as claimed): at no time are the listener callbacks of two different
\* events running at once
C11_OneDispatchAtATime ==
  \A t, u \in InCallbacks : th[t].op = th[u].op

\* C12: when the reader dispatches an event, every matching listener is
\* invoked, also those registered after one whose callback raises; and when
\* the callbacks are over, raised or not, the reader is back in its loop,
\* the client is as connected as before and no disconnect handling has begun
C12_RaisingCallbackContained ==
  [][\A t \in Threads :
       /\ (th[t].pc = "r_recv" /\ th'[t].pc = "r_cb") =>
            \A i \in 1..Len(listeners) :
              Matches(listeners[i], dEv') => listeners[i].cb \in Range(th'[t].retS)
       /\ (th[t].pc = "r_cb" /\ th'[t] # th[t]) =>
            /\ th'[t].kind = "reader" /\ th'[t].pc = "r_loop"
            /\ connected' = connected
            /\ dcCalls' = dcCalls]_vars

\* C12 witness: the second event was dispatched to the raising callback and
\* to the listener registered after it, and the same reader, still on the
\* first connection, is waiting for the next frame
C12_Witness ==
  \E t \in Threads :
    /\ th[t].kind = "reader" /\ th[t].pc = "r_recv" /\ th[t].rs = sock
    /\ dEv.name = "Bar" /\ dCalls = <<"r", "a">>
    /\ <<"reader", EventFoo[1]>> \in consumed
    /\ NumSocks = 1 /\ connected

\* thread t, a reconnection loop, begins a connect() attempt in this step
RetryBegins(t) ==
  th[t].kind = "reconn" /\ th[t].pc = "k_open" /\ th'[t].pc = "k_conn"

\* C13 (as claimed): retrying stops once connected: no reconnection loop
\* begins a connect() attempt while the client is connected
C13_RetryStopsOnceConnected ==
  [][\A t \in Threads : RetryBegins(t) => ~connected]_vars

\* no login has succeeded so far
NeverLoggedIn == \A s \in SockIds : ~socks[s].est

\* C14: as long as no login has succeeded, a connect() of the caller that
\* has reached its return returns false, the client is neither connected nor
\* running, no thread but the caller's exists, and no socket was opened
\* beyond the caller's own connect() calls
C14_FailedConnectStartsNothing ==
  NeverLoggedIn =>
    /\ th[Caller].pc = "k_ret" => ~th[Caller].retB
    /\ ~connected /\ ~running
    /\ \A t \in Threads \ {Caller} : th[t].kind = "none"
    /\ NumSocks <= nConnects

\* C14 witness: the caller's connect() is about to return false after the
\* PBX rejected the login
C14_Witness ==
  /\ th[Caller].pc = "k_ret" /\ ~th[Caller].retB
  /\ {"opened", "banner", "sent"} \subseteq th[Caller].log
  /\ th[Caller].buf = LoginErr
  /\ NeverLoggedIn /\ ~connected

\* C15 (as claimed): when the caller's first connect() is about to return
\* false, every socket opened so far, which is the one that call opened,
\* has been closed
C15_FailedConnectClosesSocket ==
  (th[Caller].pc = "k_ret" /\ ~th[Caller].retB /\ NeverLoggedIn) =>
    \A s \in SockIds : socks[s].st # "unused" => socks[s].closed

\* C16 (as claimed): when disconnect() returns, in whatever state it was
\* called, the client is neither running nor connected and its socket, if it
\* has one, is closed
C16_DisconnectLeavesDown ==
  th[Caller].pc = "d_ret" =>
    /\ ~running /\ ~connected
    /\ sock # 0 => socks[sock].closed

\* C17 (as claimed): however the inbound byte stream is cut into chunks, the
\* reader goes on reading, and once the whole stream has been received it has
\* extracted the frames, in order, and kept the remainder that the whole
\* stream received at once gives
C17_ChunkingIndependent ==
  /\ rx.ok
  /\ rx.wire = <<>> =>
       /\ rx.out = TextFrames(Decode(rx.all))
       /\ rx.buf = TextRemainder(Decode(rx.all))

\* the lines of a frame, and those with a ": " in them, as the frame has them
FrameLines(msg) == SplitAll(msg, CrLf)

LinesOf(msg, k) ==
  {i \in 1..Len(FrameLines(msg)) :
     /\ Contains(FrameLines(msg)[i], ColonSpace)
     /\ Before(FrameLines(msg)[i], ColonSpace) = k}

FrameKeys(msg) ==
  {Before(l, ColonSpace) : l \in {x \in Range(FrameLines(msg)) : Contains(x, ColonSpace)}}

ValueAt(msg, i) == After(FrameLines(msg)[i], ColonSpace)

Parsed == pm.pc \in {"parsed", "event", "done"}

\* C18 (as claimed): the record parsed from a frame has exactly the keys of
\* the frame's lines that hold ": ", each split at its first ": ", and maps
\* each key to the value of one of its lines; lines without ": " add nothing
C18_RecordOfWellFormedLines ==
  Parsed =>
    /\ DOMAIN pm.data = FrameKeys(pm.msg)
    /\ \A k \in DOMAIN pm.data :
         \E i \in LinesOf(pm.msg, k) : pm.data[k] = ValueAt(pm.msg, i)

\* C19 (as claimed): a key on more than one line of the frame is mapped to
\* the value of its last line, and an event dispatched for a frame with
\* several "Event" lines is named by the last of them
C19_LastOccurrenceWins ==
  Parsed =>
    \A k \in FrameKeys(pm.msg) :
      Cardinality(LinesOf(pm.msg, k)) > 1 =>
        LET last == CHOOSE i \in LinesOf(pm.msg, k) :
                      \A j \in LinesOf(pm.msg, k) : j <= i
        IN /\ k \in DOMAIN pm.data
           /\ pm.data[k] = ValueAt(pm.msg, last)
           /\ (pm.pc = "event" /\ k = <<"Event">>) =>
                pm.name = ValueAt(pm.msg, last)

\* the thread's next statement writes to self._sock: the login of connect(),
\* which takes no lock, or the send of ping() or send_action(), which is made
\* under self._send_lock and can start when the lock is free
LoginWrite(t) == th[t].pc = "k_login"
LockedWrite(t) == th[t].pc \in {"p_send", "s_send"} /\ sendLock = 0

\* C20 (as claimed): no two threads can be writing to the socket at once, that
\* is, there are never two threads whose next statement is a write to the
\* socket that self._sock names with no lock that makes one wait for the other
C20_OneWriterAtATime ==
  \A t, u \in Threads :
    (t # u /\ SendOk(sock) /\ LoginWrite(t)) =>
      ~(LoginWrite(u) \/ LockedWrite(u))

\* the reader threads inside recv on the socket self._sock names now, and the
\* keep-alive threads inside ping() past its test
ReadersOfCurrent ==
  {t \in Threads : th[t].kind = "reader" /\ th[t].pc = "r_recv"
                     /\ sock # 0 /\ th[t].rs = sock}

Probing == {t \in Threads : th[t].kind = "ping" /\ th[t].pc = "p_send"}

\* C21 (as claimed): at most one reader thread reads from the current socket
\* and at most one keep-alive thread probes it
C21_OneReaderOneProbe ==
  Cardinality(ReadersOfCurrent) <= 1 /\ Cardinality(Probing) <= 1

\* thread t takes a step in which its recv returns no bytes or raises, or its
\* keep-alive send raises
ReadFails(t) ==
  /\ th[t].pc = "r_recv" /\ th'[t] # th[t]
  /\ RecvOutcome(th[t].rs) \in {"eof", "err"}

ProbeFails(t) ==
  th[t].pc = "p_send" /\ th'[t] # th[t] /\ ~SendOk(sock)

\* C22: while the client is running and connected, a read error, a read of
\* no bytes and a failed keep-alive send each take their thread into
\* _handle_disconnect; the handler sets connected to false and invokes the
\* disconnect callback when one is set, and then, the client still running,
\* starts one reconnect thread and ends its own thread without raising
C22_FailureStartsRecovery ==
  [][\A t \in Threads :
       /\ (running /\ connected /\ (ReadFails(t) \/ ProbeFails(t))) =>
            th'[t].pc = "hd_mark"
       /\ (th[t].pc = "hd_mark" /\ th'[t] # th[t]) =>
            /\ ~connected'
            /\ dcCalls' = IF onDisconnect = "none" THEN dcCalls ELSE dcCalls + 1
            /\ th'[t].pc = "hd_spawn"
       /\ (th[t].pc = "hd_spawn" /\ th'[t] # th[t] /\ running) =>
            /\ NumKind(th', "reconn") = NumKind(th, "reconn") + 1
            /\ th'[t].kind \in {"none", "reconn"}]_vars

\* C22 witness: after one connection was lost the handler has run once: the
\* client is not connected, the callback was invoked and a reconnect thread
\* is at the head of its loop
C22_Witness ==
  /\ Cardinality(LostSocks) = 1 /\ running /\ ~connected
  /\ onDisconnect # "none" /\ dcCalls = 1
  /\ \E t \in Threads : th[t].kind = "reconn" /\ th[t].pc = "rc_loop"
  /\ \A t \in Threads : th[t].pc \notin {"hd_mark", "hd_spawn"}

\* the connection of the current socket is half-open
HalfOpen == sock # 0 /\ socks[sock].peer = "mute"

\* the Ping requests written to socket s and never answered
PingsPending(s) ==
  Cardinality({i \in 1..Len(socks[s].reqs) : socks[s].reqs[i] = "Ping"})

\* the socket thread t reads from, or writes its ping to
SocketUsed(t) == IF th[t].kind = "reader" THEN th[t].rs ELSE sock

\* thread t enters the disconnect handling in this step because its read or
\* its write failed
FailsOnSocket(t) ==
  th[t].pc \in {"r_recv", "p_send"} /\ th'[t].pc = "hd_mark"

\* C23: a half-open connection, where writes succeed and reads time out, is
\* never found lost: no read from it and no ping written to it takes a thread
\* into the disconnect handling, however many pings went unanswered, so that
\* the client is not marked disconnected, no callback is invoked and no
\* reconnection starts on its account
C23_HalfOpenStaysConnected ==
  [][\A t \in Threads :
       FailsOnSocket(t) =>
         SocketUsed(t) = 0 \/ socks[SocketUsed(t)].peer # "mute"]_vars

\* C23 witness: two pings were written to the half-open connection, none
\* was answered, the keep-alive thread is back at the head of its loop and
\* the reader is waiting in recv
C23_Witness ==
  /\ HalfOpen /\ connected
  /\ PingsPending(sock) = 2
  /\ \E t \in Threads : th[t].kind = "ping" /\ th[t].pc = "p_loop"
  /\ \E t \in Threads : th[t].kind = "reader" /\ th[t].pc = "r_recv"

\* thread t is a reader inside a listener callback, or inside a call the
\* callback made into the client
InsideCallback(t) ==
  th[t].kind = "reader" /\ th[t].pc \in {"r_cb", "s_send", "s_recv"}

\* C24: whenever the reader is inside a listener callback, whether the
\* callback calls add_event_listener or send_action or neither, it gets out
\* of it again: the calls return, the remaining listeners are served and the
\* reader is back in its loop (or has ended)
C24_CallbackCallsReturn ==
  (\E t \in Threads : InsideCallback(t)) ~> (\A t \in Threads : ~InsideCallback(t))

\* C24 witness: the reader has served the listeners of one event, among them
\* a callback that added a listener, the listener it added, and a callback
\* whose send_action wrote its request
C24_Witness ==
  \E t \in Threads :
    /\ th[t].kind = "reader" /\ th[t].pc = "r_cb" /\ NextBody(t) = 0
    /\ th[t].retS = <<"g", "s", "h">>
    /\ "write" \in th[t].log
    /\ Len(listeners) = 3 /\ listeners[3] = AddedByCallback

\* C25: with lifecycle callbacks that raise, the disconnect handler still goes
\* on to start the reconnect thread when the client is running, and the step
\* in which a reconnect thread invokes the reconnect callback after a
\* successful connect() leaves connected, running and the socket as they
\* are and ends that thread with no further attempt
C25_CallbacksBestEffort ==
  [][\A t \in Threads :
       /\ (th[t].pc = "hd_mark" /\ th'[t] # th[t]) =>
            th'[t].pc = "hd_spawn" /\ dcCalls' = DisconnectCallback(dcCalls)
       /\ (th[t].pc = "hd_spawn" /\ th'[t] # th[t] /\ running) =>
            NumKind(th', "reconn") = NumKind(th, "reconn") + 1
       /\ (th[t].pc = "rc_after" /\ th[t].retB /\ th'[t] # th[t]) =>
            /\ rcCalls' = ReconnectCallback(rcCalls)
            /\ connected' = connected /\ running' = running /\ sock' = sock
            /\ socks' = socks
            /\ th'[t].kind = "none"
            /\ NumKind(th', "reconn") = NumKind(th, "reconn") - 1]_vars

\* C25 witness: both callbacks were set to raise, each was invoked once for
\* the one lost connection, and the client is connected on its second socket
\* with no reconnect thread left
C25_Witness ==
  /\ onDisconnect = "raises" /\ onReconnect = "raises"
  /\ dcCalls = 1 /\ rcCalls = 1
  /\ connected /\ running /\ sock = 2 /\ socks[2].est
  /\ NumKind(th, "reconn") = 0

\* no line of the frame is "Event: ..."
NoEventKey(frame) ==
  \A i \in 1..Len(frame) : ~(Len(frame[i]) = 2 /\ frame[i][1] = "Event")

\* reader t takes a step in which recv returns bytes and every frame that
\* becomes complete is without an "Event" key
ReadsOnlyReplies(t) ==
  /\ th[t].kind = "reader" /\ th[t].pc = "r_recv" /\ th'[t] # th[t]
  /\ RecvOutcome(th[t].rs) = "data"
  /\ \A f \in Range(Frames(th[t].buf \o Head(socks[th[t].rs].inq))) : NoEventKey(f)

\* C26: a step of the reader in which only frames without an "Event" key
\* become complete invokes no callback and builds no event, whatever
\* listeners are registered: the reader goes straight back to its loop
C26_RepliesNotDispatched ==
  [][\A t \in Threads :
       ReadsOnlyReplies(t) =>
         th'[t].pc = "r_loop" /\ dCalls' = dCalls /\ dEv' = dEv]_vars

\* C26 witness: with a listener that has no whitelist and no filter
\* registered before connect(), the reader has read the reply to a Ping and
\* nothing was dispatched
C26_Witness ==
  /\ th[Caller].pc = "k_ret"
  /\ Len(listeners) = 1 /\ listeners[1].wl = <<>> /\ DOMAIN listeners[1].flt = {}
  /\ <<"reader", <<"Response", "Pong">>>> \in consumed
  /\ dCalls = <<>> /\ dEv = NoEvent
  /\ \E t \in Threads : th[t].kind = "reader" /\ th[t].pc = "r_loop"

\* disconnect() has returned and the caller has not called connect() since
AfterDisconnect == shutdown /\ th[Caller].pc = "idle"

\* C27 (as claimed): once disconnect() has returned, and until the caller
\* calls connect() again, no step starts a reader, a keep-alive or a
\* reconnect thread
C27_NothingStartsAfterDisconnect ==
  [][AfterDisconnect =>
       \A k \in {"reader", "ping", "reconn"} :
         NumKind(th', k) <= NumKind(th, k)]_vars

\* reader t takes the step in which its recv times out
TimesOut(t) ==
  /\ th[t].kind = "reader" /\ th[t].pc = "r_recv" /\ th'[t] # th[t]
  /\ RecvOutcome(th[t].rs) = "timeout"

\* C28: a read timeout changes neither the connection state, the socket, the
\* listeners nor the reader's buffer, invokes no listener and no lifecycle
\* callback, and takes the reader back to its loop; and an event the PBX
\* sends in two parts is dispatched whole, whatever timeouts came between
C28_TimeoutChangesNothing ==
  [][/\ \A t \in Threads :
          TimesOut(t) =>
            /\ th'[t].pc = "r_loop" /\ th'[t].buf = th[t].buf
            /\ connected' = connected /\ running' = running /\ sock' = sock
            /\ listeners' = listeners /\ socks' = socks
            /\ dCalls' = dCalls /\ dEv' = dEv
            /\ dcCalls' = dcCalls /\ rcCalls' = rcCalls
     /\ dEv' # dEv =>
          \E n \in 1..nEvents : dEv' = AMIEvent(SplitMsg(EventNo(n)))]_vars

\* C28 witness: the reader timed out while its buffer held the first part
\* of the event, then received the rest, and the listener is being invoked
\* for the whole event with the buffer empty again
C28_Witness ==
  \E t \in Threads :
    /\ th[t].kind = "reader" /\ th[t].pc = "r_cb" /\ "held" \in th[t].log
    /\ th[t].retS = <<"a">> /\ th[t].buf = <<>>
    /\ dEv = PushedEvent /\ EventGet(dEv, "X") = "1"

\* C29 (as claimed): at most one reconnect thread exists at any time
C29_OneReconnectTask == NumKind(th, "reconn") <= 1

\* reader t takes the step in which its recv returns bytes that complete a
\* frame begun by the bytes already in its buffer
CompletesHeldFrame(t) ==
  /\ th[t].kind = "reader" /\ th[t].pc = "r_recv" /\ th'[t] # th[t]
  /\ RecvOutcome(th[t].rs) = "data"
  /\ th[t].buf # <<>>
  /\ HasTerm(th[t].buf \o Head(socks[th[t].rs].inq))

\* C30 (as claimed): a frame is never assembled from bytes received on the
\* sockets of two different connections: when received bytes complete a
\* frame begun in a reader's buffer, the buffered bytes came from the socket
\* the new bytes were received on
C30_FramesOfOneConnection ==
  [][\A t \in Threads :
       CompletesHeldFrame(t) => th[t].src \subseteq {th[t].rs}]_vars

\* C31 (as claimed): once disconnect() has been called on a connection that
\* the PBX never failed, no step invokes the disconnect callback and no step
\* starts a reconnect thread
C31_ShutdownIsNotALoss ==
  [][shutdown =>
       /\ dcCalls' = dcCalls
       /\ NumKind(th', "reconn") <= NumKind(th, "reconn")]_vars

\* the setup has completed: its handlers were set and the platforms, with the
\* AMIConnected entity, were set up after them
SetupComplete == onDisconnect = "state"

\* reconnect thread t leaves the connect() that reconnected the client
Reconnected(t) == th[t].pc = "rc_after" /\ th[t].retB /\ th'[t] # th[t]

\* C32 (as claimed): once the setup has completed, every reconnection runs the
\* handler that sends DeviceStateList and runs the state-refresh callbacks
C32_ReconnectRefreshes ==
  [][\A t \in Threads :
       (SetupComplete /\ Reconnected(t)) => th'[t].pc = "rc_refresh"]_vars

====
